---- MODULE Spec2Model ----
(***************************************************************************)
(* Model of the blescan device registry (internal/ble): the Scanner with   *)
(* its address -> *Device map, the per-device aggregate and its Update,    *)
(* the eviction goroutine, the bounded Updates channel and Start/Stop.     *)
(*                                                                         *)
(* Time is an integer number of microseconds.  Go slices are modelled as   *)
(* sequence values: no statement of the package writes an element of an    *)
(* existing slice in place (append only writes past len, re-slicing only   *)
(* moves the header).  The two kinds of object that ARE mutated in place,  *)
(* the Device behind a *Device and the ServiceData map, live in heaps      *)
(* (devHeap, mapHeap) and are referred to by id.                           *)
(***************************************************************************)
EXTENDS Integers, Sequences, FiniteSets, TLC

----------------------------------------------------------------------------
(* Units and program constants                                             *)

Microsecond == 1
Millisecond == 1000 * Microsecond
Second == 1000 * Millisecond

deviceTimeout == 30 * Second
cleanupInterval == 5 * Second
maxRSSIHistory == 20
maxAdvertisements == 100
UpdatesCap == 100
MinInterval == 10 * Millisecond
MaxInterval == 10 * Second

----------------------------------------------------------------------------
(* Bounds of the model                                                     *)

MaxEvents == 2        \* scan callbacks delivered in Spec
MaxAdvances == 2      \* clock advances in Spec
MaxCalls == 2         \* API calls made by the caller in Spec
UpsertEvents == 2     \* scan callbacks delivered in SpecUpsert
UpsertAdvances == 2   \* clock advances in SpecUpsert
UpsertCalls == 1      \* calls of Clear in SpecUpsert
ReadEvents == 2       \* scan callbacks delivered in SpecRead
ReadAdvances == 1     \* clock advances in SpecRead
ReadCalls == 1        \* API calls made by each caller in SpecRead
FloodEvents == 102    \* scan callbacks delivered in SpecFlood
FloodAdvances == 1    \* clock advances in SpecFlood
LiveEvents == 2       \* scan callbacks delivered in SpecLive
LiveAdvances == 2     \* clock advances in SpecLive
LiveCalls == 1        \* calls of Stop in SpecLive
FairEvents == 2       \* scan callbacks delivered in SpecFair
FairAdvances == 1     \* clock advances in SpecFair
FairCalls == 1        \* API calls made by each caller in SpecFair
AgainEvents == 2      \* scan callbacks delivered in SpecAgain
AgainAdvances == 1    \* clock advances in SpecAgain
AgainCalls == 1       \* calls of Clear in SpecAgain
WakeEvents == 2       \* scan callbacks delivered in SpecWake
WakeAdvances == 1     \* clock advances in SpecWake
WakeReads == 2        \* signals the consumer receives in SpecWake
RingEvents == 23      \* events applied in SpecRing
RingFree == 3         \* leading events of SpecRing whose RSSI is free
IntervalEvents == 6   \* events applied in SpecInterval
MergeEvents == 3      \* events applied in SpecMerge
UpdateCalls == 3      \* events applied in SpecUpdate
ParseLen == 5         \* longest raw payload in SpecParse

----------------------------------------------------------------------------
(* Generic helpers                                                         *)

Nil == "nil"
NoDev == 0        \* the nil *Device
Absent == <<>>    \* a nil pointer field; a set one is <<value>>
None == "none"

EmptyMap == [k \in {} |-> <<>>]

MapSet(m, k, v) == [x \in (DOMAIN m) \cup {k} |-> IF x = k THEN v ELSE m[x]]


Range(s) == {s[i] : i \in DOMAIN s}

\* (mutant) the newest element is dropped
DropNewest(s) == SubSeq(s, 1, Len(s) - 1)

\* (mutant) nothing is dropped
DropNothing(s) == s

Tail1(s) == SubSeq(s, 2, Len(s))

RECURSIVE SumSeq(_)
SumSeq(s) == IF s = <<>> THEN 0 ELSE Head(s) + SumSeq(Tail(s))

\* all orders in which the elements of a finite set can be listed
RECURSIVE Orders(_)
Orders(S) ==
    IF S = {} THEN {<<>>}
    ELSE UNION {{<<x>> \o o : o \in Orders(S \ {x})} : x \in S}

----------------------------------------------------------------------------
(* Advertisement (advertisement.go)                                        *)

\* NewAdvertisement: timestamp now, empty ServiceData map, zero values
NewAdvertisement(now) ==
    [Timestamp |-> now, RSSI |-> 0, RawData |-> <<>>,
     ManufacturerData |-> <<>>, ServiceUUIDs |-> <<>>,
     ServiceData |-> EmptyMap, LocalName |-> "",
     TxPowerLevel |-> Absent, Connectable |-> FALSE, Flags |-> Absent,
     Appearance |-> Absent, ADTypes |-> <<>>]

\* the for-loop over result.ServiceData() of handleAdvertisement
RECURSIVE FoldServiceData(_, _)
FoldServiceData(adv, sds) ==
    IF sds = <<>> THEN adv
    ELSE FoldServiceData(
           [adv EXCEPT !.ServiceData = MapSet(@, Head(sds).UUID, Head(sds).Data),
                       !.ServiceUUIDs = Append(@, Head(sds).UUID)],
           Tail(sds))

\* (mutant) the company id is written high byte first
EncodeBigEndian(mfg) ==
    IF Len(mfg) > 0
    THEN <<mfg[1].CompanyID \div 256, mfg[1].CompanyID % 256>> \o mfg[1].Data
    ELSE <<>>

\* bytes of the first manufacturer entry: company id little-endian, then data
EncodeManufacturer(mfg) ==
    IF Len(mfg) > 0
    THEN <<mfg[1].CompanyID % 256, mfg[1].CompanyID \div 256>> \o mfg[1].Data
    ELSE <<>>

\* AD type codes inferred by handleAdvertisement
InferADTypes(adv) ==
    (IF adv.LocalName # "" THEN <<9>> ELSE <<>>)
    \o (IF Len(adv.ManufacturerData) > 0 THEN <<255>> ELSE <<>>)
    \o (IF Len(adv.ServiceUUIDs) > 0 THEN <<3>> ELSE <<>>)
    \o (IF DOMAIN adv.ServiceData # {} THEN <<22>> ELSE <<>>)

\* handleAdvertisement lines 115-166: the event built from a scan result
BuildAdvertisement(result, now) ==
    LET a0 == [NewAdvertisement(now) EXCEPT
                  !.RSSI = result.RSSI,
                  !.LocalName = result.LocalName,
                  !.ManufacturerData = EncodeManufacturer(result.ManufacturerData)]
        a1 == FoldServiceData(a0, result.ServiceData)
        a2 == [a1 EXCEPT !.Connectable =
                  (result.LocalName # "" \/ Len(result.ServiceData) > 0)]
    IN [a2 EXCEPT !.ADTypes = InferADTypes(a2)]

\* (mutant) the loop stops after the first record
ParseFirstOnly(raw, offset, types) ==
    IF Len(raw) >= 2 /\ raw[1] # 0 THEN <<raw[2]>> ELSE <<>>

\* the loop of ParseADTypes (lines 58-79) from a 0-based offset, with the
\* type codes collected so far
RECURSIVE ParseLoop(_, _, _)
ParseLoop(raw, offset, types) ==
    IF offset >= Len(raw) THEN types
    ELSE LET length == raw[offset + 1]
         IN IF length = 0 THEN types
            ELSE IF offset + 1 >= Len(raw) THEN types
            ELSE ParseLoop(raw, offset + 1 + length,
                           Append(types, raw[offset + 2]))

\* ParseADTypes: nothing is touched for an empty payload (line 51-53), else
\* ADTypes is replaced by the codes the loop collected (line 81)
ParseADTypes(a) ==
    IF Len(a.RawData) = 0 THEN a
    ELSE [a EXCEPT !.ADTypes = ParseLoop(a.RawData, 0, <<>>)]

----------------------------------------------------------------------------
(* Device (device.go)                                                      *)

\* (mutant) the creation is counted as an advertisement
NewDeviceCounted(address, now, sd) ==
    [Address |-> address, Name |-> "", RSSIHistory |-> <<>>,
     RSSICurrent |-> 0, RSSIAverage |-> [sum |-> 0, n |-> 1],
     Advertisements |-> <<>>, FirstSeen |-> now, LastSeen |-> now,
     AdvInterval |-> 0, AdvCount |-> 1, ManufacturerID |-> Absent,
     ManufacturerData |-> <<>>, ServiceUUIDs |-> <<>>, ServiceData |-> sd,
     TxPowerLevel |-> Absent, Connectable |-> FALSE, Flags |-> Absent,
     Appearance |-> Absent, ADTypes |-> <<>>]

\* NewDevice; sd is the id of the freshly made ServiceData map
NewDevice(address, now, sd) ==
    [Address |-> address, Name |-> "", RSSIHistory |-> <<>>,
     RSSICurrent |-> 0, RSSIAverage |-> [sum |-> 0, n |-> 1],
     Advertisements |-> <<>>, FirstSeen |-> now, LastSeen |-> now,
     AdvInterval |-> 0, AdvCount |-> 0, ManufacturerID |-> Absent,
     ManufacturerData |-> <<>>, ServiceUUIDs |-> <<>>, ServiceData |-> sd,
     TxPowerLevel |-> Absent, Connectable |-> FALSE, Flags |-> Absent,
     Appearance |-> Absent, ADTypes |-> <<>>]

\* (mutant) the sum is divided by the capacity of the ring
AverageOverCapacity(hist) == [sum |-> SumSeq(hist), n |-> maxRSSIHistory]

\* calculateRSSIAverage: the quotient sum/n, kept as the exact fraction (the
\* float64 the code stores is this quotient rounded)
calculateRSSIAverage(hist) ==
    IF Len(hist) = 0 THEN [sum |-> 0, n |-> 1]
    ELSE [sum |-> SumSeq(hist), n |-> Len(hist)]

\* (mutant) every delta is kept
AllIntervals(log) ==
    [i \in 1..(Len(log) - 1) |-> log[i + 1].Timestamp - log[i].Timestamp]

\* the deltas of consecutive log entries that pass the plausibility filter
ValidIntervals(log) ==
    LET deltas == [i \in 1..(Len(log) - 1) |->
                      log[i + 1].Timestamp - log[i].Timestamp]
    IN SelectSeq(deltas, LAMBDA x : x >= MinInterval /\ x < MaxInterval)

\* insertion of x into an ascending sequence
RECURSIVE InsertSorted(_, _)
InsertSorted(s, x) ==
    IF s = <<>> THEN <<x>>
    ELSE IF x <= Head(s) THEN <<x>> \o s
    ELSE <<Head(s)>> \o InsertSorted(Tail(s), x)

RECURSIVE SortAscending(_)
SortAscending(s) == IF s = <<>> THEN <<>> ELSE InsertSorted(SortAscending(Tail(s)), Head(s))

\* (mutant) the upper middle value, with no averaging
UpperMiddle(durations) ==
    SortAscending(durations)[Len(durations) \div 2 + 1]

\* (mutant) the two middle values are added and not halved
MiddleSum(durations) ==
    LET n == Len(durations)
        sorted == SortAscending(durations)
    IN IF n = 0 THEN 0
       ELSE IF n % 2 = 0 THEN sorted[n \div 2] + sorted[n \div 2 + 1]
       ELSE sorted[n \div 2 + 1]

medianDuration(durations) ==
    LET n == Len(durations)
        sorted == SortAscending(durations)
    IN IF n = 0 THEN 0
       ELSE IF n % 2 = 0 THEN (sorted[n \div 2] + sorted[n \div 2 + 1]) \div 2
       ELSE sorted[n \div 2 + 1]

calculateAdvInterval(log) ==
    IF Len(log) < 5 THEN 0
    ELSE LET intervals == ValidIntervals(log)
         IN IF Len(intervals) < 3 THEN 0 ELSE medianDuration(intervals)

\* (mutant) the event's codes replace the accumulated ones
EventTypesOnly(d, adv) == Range(adv.ADTypes)

\* the set of type codes after the merge of Update lines 110-124
MergedTypes(d, adv) == Range(d.ADTypes) \cup Range(adv.ADTypes)

\* (mutant) the event's name is stored even when it is empty
NameOverwritten(old, new) == new

\* Update lines 62-64: the name is replaced by a non-empty one only
StickyName(old, new) == IF new # "" THEN new ELSE old

\* Update lines 82-84: the list is replaced by a non-empty one only
StickyUUIDs(old, new) == IF Len(new) > 0 THEN new ELSE old

\* (mutant) the event's pointer is stored even when it is nil
OptionalOverwritten(old, new) == new

\* Update lines 92-94, 100-102, 105-107: a pointer field is replaced by a
\* non-nil one only
StickyOptional(old, new) == IF new # Absent THEN new ELSE old

\* (mutant) the count stops where the advertisement log is full
CountRetained(n) == IF n < maxAdvertisements THEN n + 1 ELSE n

\* Update line 59: d.AdvCount++
NextCount(n) == n + 1

\* Update, except for the ServiceData map it writes in place (UpdateMap);
\* order is the order in which the range over typeSet yields the codes
Update(d, adv, order) ==
    LET hist == Append(d.RSSIHistory, adv.RSSI)
        hist2 == IF Len(hist) > maxRSSIHistory THEN Tail1(hist) ELSE hist
        log == Append(d.Advertisements, adv)
        log2 == IF Len(log) > maxAdvertisements THEN Tail1(log) ELSE log
        hasMfg == Len(adv.ManufacturerData) >= 2
    IN [d EXCEPT
          !.LastSeen = adv.Timestamp,
          !.AdvCount = NextCount(@),
          !.Name = StickyName(@, adv.LocalName),
          !.RSSICurrent = adv.RSSI,
          !.RSSIHistory = hist2,
          !.RSSIAverage = calculateRSSIAverage(hist2),
          !.ManufacturerID = IF hasMfg
                             THEN <<adv.ManufacturerData[1]
                                    + 256 * adv.ManufacturerData[2]>>
                             ELSE @,
          !.ManufacturerData = IF hasMfg THEN adv.ManufacturerData ELSE @,
          !.ServiceUUIDs = StickyUUIDs(@, adv.ServiceUUIDs),
          !.TxPowerLevel = StickyOptional(@, adv.TxPowerLevel),
          !.Connectable = adv.Connectable,
          !.Flags = StickyOptional(@, adv.Flags),
          !.Appearance = StickyOptional(@, adv.Appearance),
          !.ADTypes = IF Len(adv.ADTypes) > 0 THEN order ELSE @,
          !.Advertisements = log2,
          !.AdvInterval = calculateAdvInterval(log2)]

\* the orders the type-code merge of Update can produce
UpdateOrders(d, adv) ==
    IF Len(adv.ADTypes) > 0 THEN Orders(MergedTypes(d, adv)) ELSE {d.ADTypes}

\* of those orders, the ascending one
RECURSIVE Ascending(_)
Ascending(S) ==
    IF S = {} THEN <<>>
    ELSE LET m == CHOOSE x \in S : \A y \in S : x <= y
         IN <<m>> \o Ascending(S \ {m})

AscendingOrder(d, adv) ==
    IF Len(adv.ADTypes) > 0 THEN {Ascending(MergedTypes(d, adv))}
    ELSE {d.ADTypes}

\* (mutant) the event's map takes the place of the stored one
MapReplaced(m, adv) == adv.ServiceData

\* Update lines 87-89: the stored map after the event's entries are written
UpdateMap(m, adv) ==
    [k \in (DOMAIN m) \cup (DOMAIN adv.ServiceData) |->
        IF k \in DOMAIN adv.ServiceData THEN adv.ServiceData[k] ELSE m[k]]

\* (mutant) the copy keeps the live Device's map
CopyMapShared(d, fresh) == d.ServiceData

\* the ServiceData reference a copy gets: the freshly made map
CopyMapRef(d, fresh) == fresh

\* Copy: the Device value returned; fresh is the id of the map made for it
Copy(d, fresh) == [d EXCEPT !.ServiceData = CopyMapRef(d, fresh)]

----------------------------------------------------------------------------
(* sync.RWMutex: w the writer, r the readers, p the writers that have      *)
(* called Lock and wait; a waiting writer keeps new readers out            *)

MuNew == [w |-> None, r |-> {}, p |-> {}]

\* (mutant) the write lock is never given back
UnlockForgotten(m, t) == m

LockRequest(m, t) == [m EXCEPT !.p = @ \cup {t}]

\* (mutant) a writer is admitted while another writer holds the lock
CanLockAmongWriters(m) == m.r = {}

CanLock(m) == m.w = None /\ m.r = {}
LockAcquire(m, t) == [m EXCEPT !.w = t, !.p = @ \ {t}]
Unlock(m, t) == [m EXCEPT !.w = None]

\* (mutant) a reader is admitted while a writer holds the lock
RLockUnguarded(m) == TRUE

CanRLock(m) == m.w = None /\ m.p = {}
RLock(m, t) == [m EXCEPT !.r = @ \cup {t}]
RUnlock(m, t) == [m EXCEPT !.r = @ \ {t}]

----------------------------------------------------------------------------
(* Threads and inputs                                                      *)

Addr == {"A", "B"}
Callbacks == {"cb1", "cb2"}      \* scan callbacks in flight
Callers == {"ui", "rd"}          \* goroutines calling the Scanner's API
Sweeper == "sweep"               \* the cleanupStaleDevices goroutine
Threads == Callbacks \cup Callers \cup {Sweeper}

\* the scan result the adapter delivers for an address as its n-th event:
\* odd events are anonymous, even ones carry a name and manufacturer data;
\* the service data of the one service changes with every event
Result(a, n) ==
    [Address |-> a,
     RSSI |-> IF n % 2 = 1 THEN -60 ELSE -80,
     LocalName |-> IF n % 2 = 1 THEN "" ELSE "x",
     ManufacturerData |-> IF n % 2 = 1 THEN <<>>
                          ELSE <<[CompanyID |-> 76, Data |-> <<1, 2>>]>>,
     ServiceData |-> <<[UUID |-> "u1", Data |-> <<n % 256>>]>>]

\* the amounts by which the clock advances between steps
ClockSteps == {Microsecond, deviceTimeout}

VARIABLES
    devices,      \* s.devices: address -> id of the Device, or Nil
    devHeap,      \* the Device objects, by id
    dmu,          \* Device.mu of each Device object
    mapHeap,      \* the ServiceData map objects, by id
    smu,          \* s.mu
    updates,      \* number of signals pending in s.Updates
    scanning,     \* s.scanning
    started,      \* Start has run
    stopClosed,   \* s.stopChan is closed
    ticker,       \* s.cleanupTicker: running, and a tick pending in C
    scanStopped,  \* adapter.StopScan has returned
    clock,        \* time.Now()
    pc,           \* position of every thread
    cb,           \* locals of the scan callbacks (handleAdvertisement)
    sw,           \* locals of the sweeper
    api,          \* locals of the API callers
    nEvents,      \* callbacks delivered so far
    nAdvances,    \* clock advances so far
    live,         \* history: addresses upserted and not removed since
    applied,      \* history: events applied per address since its removal
    created,      \* history: Devices created per address since its removal
    stopReturned, \* history: a Stop that stopped the scanner has returned
    retDeep,      \* history: the value of each caller's result on return
    lastDropped,  \* history: the last notification attempt was dropped
    fed,          \* history: the events applied by the sequential driver
    packet        \* the Advertisement given to ParseADTypes, and whether
                  \* ParseADTypes has run on it

vars == <<devices, devHeap, dmu, mapHeap, smu, updates, scanning, started,
          stopClosed, ticker, scanStopped, clock, pc, cb, sw, api, nEvents,
          nAdvances, live, applied, created, stopReturned, retDeep,
          lastDropped, fed, packet>>

registry == <<devices, devHeap, dmu, mapHeap>>
lifecycle == <<scanning, started, stopClosed, ticker, scanStopped>>
history == <<live, applied, created, stopReturned, retDeep, lastDropped>>
bench == <<fed, packet>>

----------------------------------------------------------------------------
(* Heap helpers                                                            *)

Restrict(f, S) == [x \in (DOMAIN f) \cap S |-> f[x]]

\* (mutant) every new object takes the place of the first one
FirstId(h) == 1

FreshId(h) == CHOOSE i \in 1..(Cardinality(DOMAIN h) + 1) : i \notin DOMAIN h

Keys(dv) == {a \in Addr : dv[a] # NoDev}

\* a Device value with its ServiceData map read through the heap
Deep(mh, d) == [d EXCEPT !.ServiceData = mh[d.ServiceData]]

DeepSeq(mh, s) == [i \in DOMAIN s |-> Deep(mh, s[i])]

\* the Device objects and maps a state can still reach
DevReach(dv, cbv, swv, apv) ==
    ({dv[a] : a \in Addr} \cup {cbv[t].device : t \in Callbacks}
       \cup {swv.device} \cup {apv[t].device : t \in Callers}) \ {NoDev}

MapReach(dh, apv) ==
    {dh[i].ServiceData : i \in DOMAIN dh}
      \cup UNION {{apv[t].out[i].ServiceData : i \in DOMAIN apv[t].out} :
                    t \in Callers}

\* the values of locals that hold nothing yet
NoAdv == NewAdvertisement(0)
NoPre == [devices |-> [a \in Addr |-> NoDev], devHeap |-> EmptyMap,
          mapHeap |-> EmptyMap]

CbIdle == [address |-> Nil, adv |-> NoAdv, device |-> NoDev]

\* evicted and sent are history: the addresses the last pass removed and the
\* number of signals it put in s.Updates
SwIdle == [now |-> 0, todo |-> {}, address |-> Nil, device |-> NoDev,
           removed |-> FALSE, pre |-> NoPre, evicted |-> {}, sent |-> 0]

ApiIdle == [op |-> Nil, arg |-> Nil, todo |-> {}, out |-> <<>>, found |-> FALSE,
            count |-> 0, device |-> NoDev, calls |-> 0]

PacketIdle == [a |-> NoAdv, called |-> FALSE]

\* NewScanner
InitScanner ==
    /\ devices = [a \in Addr |-> NoDev]
    /\ devHeap = EmptyMap
    /\ dmu = EmptyMap
    /\ mapHeap = EmptyMap
    /\ smu = MuNew
    /\ updates = 0
    /\ scanning = FALSE
    /\ started = FALSE
    /\ stopClosed = FALSE
    /\ ticker = [running |-> FALSE, pending |-> FALSE, next |-> 0]
    /\ scanStopped = FALSE
    /\ clock = 0
    /\ pc = [t \in Threads |-> "idle"]
    /\ cb = [t \in Callbacks |-> CbIdle]
    /\ sw = SwIdle
    /\ api = [t \in Callers |-> ApiIdle]
    /\ nEvents = 0
    /\ nAdvances = 0
    /\ live = {}
    /\ applied = [a \in Addr |-> 0]
    /\ created = [a \in Addr |-> 0]
    /\ stopReturned = FALSE
    /\ retDeep = [t \in Callers |-> <<>>]
    /\ lastDropped = FALSE

\* NewScanner, with no event applied and no packet under decoding
Init ==
    /\ InitScanner
    /\ fed = <<>>
    /\ packet = PacketIdle

----------------------------------------------------------------------------
(* Environment: the clock and the ticker's timer                           *)

Advance(d, cap) ==
    /\ nAdvances < cap
    /\ clock' = clock + d
    /\ nAdvances' = nAdvances + 1
    /\ UNCHANGED <<registry, smu, updates, lifecycle, pc, cb, sw, api,
                   nEvents, history>>
    /\ UNCHANGED bench

\* the first scheduled tick time after now, for a tick that was due at next
NextTick(next, now) ==
    next + cleanupInterval * ((now - next) \div cleanupInterval + 1)

\* the runtime timer of time.NewTicker(cleanupInterval): a due tick is put
\* in the channel C (capacity 1) or dropped when one is already pending
TickerFire ==
    /\ ticker.running
    /\ clock >= ticker.next
    /\ ticker' = [ticker EXCEPT !.pending = TRUE,
                                !.next = NextTick(ticker.next, clock)]
    /\ UNCHANGED <<registry, smu, updates, scanning, started, stopClosed,
                   scanStopped, clock, pc, cb, sw, api, nEvents, nAdvances,
                   history>>
    /\ UNCHANGED bench

----------------------------------------------------------------------------
(* Start and Stop                                                          *)

\* Start (adapter.Enable succeeded): the scan goroutine and the sweeper run
Start(t) ==
    /\ t = "ui"
    /\ pc[t] = "idle"
    /\ ~started
    /\ started' = TRUE
    /\ scanning' = TRUE
    /\ ticker' = [running |-> TRUE, pending |-> FALSE,
                  next |-> clock + cleanupInterval]
    /\ pc' = [pc EXCEPT ![Sweeper] = "select"]
    /\ UNCHANGED <<registry, smu, updates, stopClosed, scanStopped, clock, cb,
                   sw, api, nEvents, nAdvances, history>>
    /\ UNCHANGED bench

\* (mutant) Stop leaves s.scanning set
StopKeepsFlag(t, cap) ==
    /\ t = "ui"
    /\ pc[t] = "idle"
    /\ api[t].calls < cap
    /\ api' = [api EXCEPT ![t].calls = @ + 1, ![t].op = "Stop"]
    /\ IF ~scanning
       THEN UNCHANGED <<scanning, stopClosed, ticker, pc>>
       ELSE /\ scanning' = scanning
            /\ stopClosed' = TRUE
            /\ ticker' = [ticker EXCEPT !.running = FALSE]
            /\ pc' = [pc EXCEPT ![t] = "stop_scan"]
    /\ UNCHANGED <<registry, smu, updates, started, scanStopped, clock,
                   cb, sw, nEvents, nAdvances, history>>
    /\ UNCHANGED bench

\* Stop lines 69-76: return when not scanning, else clear the flag, close
\* stopChan and stop the ticker; a tick already in its channel stays there
StopBegin(t, cap) ==
    /\ t = "ui"
    /\ pc[t] = "idle"
    /\ api[t].calls < cap
    /\ api' = [api EXCEPT ![t].calls = @ + 1, ![t].op = "Stop"]
    /\ IF ~scanning
       THEN UNCHANGED <<scanning, stopClosed, ticker, pc>>
       ELSE /\ scanning' = FALSE
            /\ stopClosed' = TRUE
            /\ ticker' = [ticker EXCEPT !.running = FALSE]
            /\ pc' = [pc EXCEPT ![t] = "stop_scan"]
    /\ UNCHANGED <<registry, smu, updates, started, scanStopped, clock,
                   cb, sw, nEvents, nAdvances, history>>
    /\ UNCHANGED bench

\* Stop line 77: adapter.StopScan(), then Stop returns
StopScan(t) ==
    /\ pc[t] = "stop_scan"
    /\ scanStopped' = TRUE
    /\ stopReturned' = TRUE
    /\ pc' = [pc EXCEPT ![t] = "idle"]
    /\ UNCHANGED <<registry, smu, updates, scanning, started, stopClosed,
                   ticker, clock, cb, sw, api, nEvents, nAdvances, live,
                   applied, created, retDeep, lastDropped>>
    /\ UNCHANGED bench

----------------------------------------------------------------------------
(* The scan callback of Start and handleAdvertisement                      *)

\* (mutant) the send always adds a signal
NotifyAlways(u) == u + 1

\* the non-blocking send on s.Updates: the number of pending signals after
Notify(u) == IF u < UpdatesCap THEN u + 1 ELSE u

\* Start lines 49-56, handleAdvertisement lines 115-168: the adapter invokes
\* the callback with a scan result; it returns when stopChan is closed, else
\* it builds the event and calls s.mu.Lock()
CbBegin(t, r, cap) ==
    /\ pc[t] = "idle"
    /\ started
    /\ ~scanStopped
    /\ nEvents < cap
    /\ nEvents' = nEvents + 1
    /\ IF stopClosed
       THEN UNCHANGED <<cb, pc, smu>>
       ELSE /\ cb' = [cb EXCEPT ![t].address = r.Address,
                                ![t].adv = BuildAdvertisement(r, clock)]
            /\ smu' = LockRequest(smu, t)
            /\ pc' = [pc EXCEPT ![t] = "wait"]
    /\ UNCHANGED <<registry, updates, lifecycle, clock, sw, api, nAdvances,
                   history>>
    /\ UNCHANGED bench

\* (mutant) the lookup never finds the Device
ExistsNever(dv, a) == FALSE

\* handleAdvertisement line 169-170: does the lookup find a Device
Exists(dv, a) == dv[a] # NoDev

\* handleAdvertisement lines 168-174, Update line 55: the lock is granted;
\* look the address up, create the Device when it is not there, and take
\* its lock
CbAcquire(t) ==
    /\ pc[t] = "wait"
    /\ CanLock(smu)
    /\ smu' = LockAcquire(smu, t)
    /\ LET a == cb[t].address
           id == FreshId(devHeap)
           mid == FreshId(mapHeap)
       IN IF Exists(devices, a)
          THEN /\ CanLock(dmu[devices[a]])
               /\ cb' = [cb EXCEPT ![t].device = devices[a]]
               /\ dmu' = [dmu EXCEPT ![devices[a]] = LockAcquire(@, t)]
               /\ UNCHANGED <<devices, devHeap, mapHeap, created>>
          ELSE LET dv == [devices EXCEPT ![a] = id]
                   cbv == [cb EXCEPT ![t].device = id]
                   dh == MapSet(devHeap, id, NewDevice(a, clock, mid))
                   keep == DevReach(dv, cbv, sw, api)
                   dh2 == Restrict(dh, keep)
               IN /\ devices' = dv
                  /\ cb' = cbv
                  /\ devHeap' = dh2
                  /\ dmu' = Restrict(MapSet(dmu, id, LockAcquire(MuNew, t)),
                                     keep)
                  /\ mapHeap' = Restrict(MapSet(mapHeap, mid, EmptyMap),
                                         MapReach(dh2, api))
                  /\ created' = [created EXCEPT ![a] = @ + 1]
    /\ pc' = [pc EXCEPT ![t] = "update"]
    /\ UNCHANGED <<updates, lifecycle, clock, sw, api, nEvents, nAdvances,
                   live, applied, stopReturned, retDeep, lastDropped>>
    /\ UNCHANGED bench

\* Update lines 58-133 with its deferred d.mu.Unlock(), then
\* handleAdvertisement line 175: s.mu.Unlock(). With allOrders every
\* iteration order of the merged type codes is explored; without it the
\* ascending one stands for them (the order is read by no property of the
\* interleaving specifications)
CbUpdate(t, allOrders) ==
    /\ pc[t] = "update"
    /\ LET id == cb[t].device
           d == devHeap[id]
           adv == cb[t].adv
       IN /\ \E order \in (IF allOrders THEN UpdateOrders(d, adv)
                                        ELSE AscendingOrder(d, adv)) :
                devHeap' = [devHeap EXCEPT ![id] = Update(d, adv, order)]
          /\ mapHeap' = [mapHeap EXCEPT
                            ![d.ServiceData] = UpdateMap(@, adv)]
          /\ dmu' = [dmu EXCEPT ![id] = Unlock(@, t)]
          /\ applied' = [applied EXCEPT ![d.Address] = @ + 1]
          /\ live' = live \cup {d.Address}
    /\ smu' = Unlock(smu, t)
    /\ cb' = [cb EXCEPT ![t].device = NoDev]
    /\ pc' = [pc EXCEPT ![t] = "notify"]
    /\ UNCHANGED <<devices, updates, lifecycle, clock, sw, api, nEvents,
                   nAdvances, created, stopReturned, retDeep, lastDropped>>
    /\ UNCHANGED bench

\* handleAdvertisement lines 178-182: signal or drop, never wait
CbNotify(t) ==
    /\ pc[t] = "notify"
    /\ updates' = Notify(updates)
    /\ lastDropped' = (updates' = updates)
    /\ cb' = [cb EXCEPT ![t] = CbIdle]
    /\ pc' = [pc EXCEPT ![t] = "idle"]
    /\ UNCHANGED <<registry, smu, lifecycle, clock, sw, api, nEvents,
                   nAdvances, live, applied, created, stopReturned, retDeep>>
    /\ UNCHANGED bench

----------------------------------------------------------------------------
(* cleanupStaleDevices                                                     *)

\* (mutant) the receive from stopChan never becomes ready
StopReceivedNever(closed) == FALSE

\* case <-s.stopChan: ready once the channel is closed
StopReceived(closed) == closed

\* line 84-85: stopChan is closed, the goroutine returns
SwExit ==
    /\ pc[Sweeper] = "select"
    /\ StopReceived(stopClosed)
    /\ pc' = [pc EXCEPT ![Sweeper] = "exited"]
    /\ UNCHANGED <<registry, smu, updates, lifecycle, clock, cb, sw, api,
                   nEvents, nAdvances, history>>
    /\ UNCHANGED bench

\* lines 86-88: a tick is received, now is read and s.mu.Lock() is called
SwTick ==
    /\ pc[Sweeper] = "select"
    /\ ticker.pending
    /\ ticker' = [ticker EXCEPT !.pending = FALSE]
    /\ sw' = [sw EXCEPT !.now = clock, !.evicted = {}, !.sent = 0]
    /\ smu' = LockRequest(smu, Sweeper)
    /\ pc' = [pc EXCEPT ![Sweeper] = "wait"]
    /\ UNCHANGED <<registry, updates, scanning, started, stopClosed,
                   scanStopped, clock, cb, api, nEvents, nAdvances, history>>
    /\ UNCHANGED bench

\* lines 88-90: the lock is granted and the range over s.devices begins
SwAcquire ==
    /\ pc[Sweeper] = "wait"
    /\ CanLock(smu)
    /\ smu' = LockAcquire(smu, Sweeper)
    /\ sw' = [sw EXCEPT !.todo = Keys(devices), !.removed = FALSE,
                        !.pre = [devices |-> devices, devHeap |-> devHeap,
                                 mapHeap |-> mapHeap]]
    /\ pc' = [pc EXCEPT ![Sweeper] = "range"]
    /\ UNCHANGED <<registry, updates, lifecycle, clock, cb, api, nEvents,
                   nAdvances, history>>
    /\ UNCHANGED bench

\* lines 90-91: the range yields an entry (in any order); device.mu.RLock()
SwRLock(a) ==
    /\ pc[Sweeper] = "range"
    /\ a \in sw.todo
    /\ CanRLock(dmu[devices[a]])
    /\ dmu' = [dmu EXCEPT ![devices[a]] = RLock(@, Sweeper)]
    /\ sw' = [sw EXCEPT !.address = a, !.device = devices[a]]
    /\ pc' = [pc EXCEPT ![Sweeper] = "read"]
    /\ UNCHANGED <<devices, devHeap, mapHeap, smu, updates, lifecycle, clock,
                   cb, api, nEvents, nAdvances, history>>
    /\ UNCHANGED bench

\* (mutant) nothing counts as stale
StaleNever(now, lastSeen) == FALSE

\* (mutant) the boundary counts as stale
StaleAtBoundary(now, lastSeen) == now - lastSeen >= deviceTimeout

\* line 95: now.Sub(lastSeen) > deviceTimeout
Stale(now, lastSeen) == now - lastSeen > deviceTimeout

\* (mutant) the entry is left in the map
DeleteNothing(dv, a) == dv

\* line 96: delete(s.devices, address)
Delete(dv, a) == [dv EXCEPT ![a] = NoDev]

\* lines 92-98: read LastSeen, device.mu.RUnlock(), delete the entry when
\* it is stale
SwRead ==
    /\ pc[Sweeper] = "read"
    /\ LET a == sw.address
           lastSeen == devHeap[sw.device].LastSeen
           stale == Stale(sw.now, lastSeen)
           swv == [sw EXCEPT !.todo = @ \ {a}, !.address = Nil,
                             !.device = NoDev, !.removed = @ \/ stale,
                             !.evicted = IF stale THEN @ \cup {a} ELSE @]
       IN /\ sw' = swv
          /\ IF stale
             THEN LET dv == Delete(devices, a)
                      keep == DevReach(dv, cb, swv, api)
                      dh == Restrict(devHeap, keep)
                  IN /\ devices' = dv
                     /\ devHeap' = dh
                     /\ dmu' = Restrict(dmu, keep)
                     /\ mapHeap' = Restrict(mapHeap, MapReach(dh, api))
                     /\ live' = live \ {a}
                     /\ applied' = [applied EXCEPT ![a] = 0]
                     /\ created' = [created EXCEPT ![a] = 0]
             ELSE /\ dmu' = [dmu EXCEPT ![sw.device] = RUnlock(@, Sweeper)]
                  /\ UNCHANGED <<devices, devHeap, mapHeap, live, applied,
                                 created>>
    /\ pc' = [pc EXCEPT ![Sweeper] = "range"]
    /\ UNCHANGED <<smu, updates, lifecycle, clock, cb, api, nEvents,
                   nAdvances, stopReturned, retDeep, lastDropped>>
    /\ UNCHANGED bench

\* line 100: the range is exhausted, s.mu.Unlock()
SwDone ==
    /\ pc[Sweeper] = "range"
    /\ sw.todo = {}
    /\ smu' = Unlock(smu, Sweeper)
    /\ sw' = [sw EXCEPT !.pre = NoPre]
    /\ pc' = [pc EXCEPT ![Sweeper] = "notify"]
    /\ UNCHANGED <<registry, updates, lifecycle, clock, cb, api, nEvents,
                   nAdvances, history>>
    /\ UNCHANGED bench

\* (mutant) every pass signals
ShouldSignalAlways(removed) == TRUE

\* line 104: if removed
ShouldSignal(removed) == removed

\* lines 104-110: one signal when something was removed, or dropped
SwNotify ==
    /\ pc[Sweeper] = "notify"
    /\ IF ShouldSignal(sw.removed)
       THEN /\ updates' = Notify(updates)
            /\ lastDropped' = (updates' = updates)
       ELSE UNCHANGED <<updates, lastDropped>>
    /\ sw' = [SwIdle EXCEPT !.evicted = sw.evicted,
                            !.sent = updates' - updates]
    /\ pc' = [pc EXCEPT ![Sweeper] = "select"]
    /\ UNCHANGED <<registry, smu, lifecycle, clock, cb, api, nEvents,
                   nAdvances, live, applied, created, stopReturned, retDeep>>
    /\ UNCHANGED bench

----------------------------------------------------------------------------
(* GetDevices, GetDevice, DeviceCount, Clear                               *)

\* (mutant) the range of GetDevices yields one entry only
ToCopyOneOnly(op, arg, dv) ==
    IF Keys(dv) = {} \/ op = "DeviceCount" THEN {}
    ELSE IF op = "GetDevice" THEN (IF Exists(dv, arg) THEN {arg} ELSE {})
    ELSE {CHOOSE a \in Keys(dv) : TRUE}

\* the entries the operation goes on to copy: all of them (GetDevices 191),
\* the one looked up if it exists (GetDevice 202), none (DeviceCount)
ToCopy(op, arg, dv) ==
    CASE op = "GetDevices" -> Keys(dv)
      [] op = "GetDevice" -> IF Exists(dv, arg) THEN {arg} ELSE {}
      [] op = "DeviceCount" -> {}

\* DeviceCount line 212: len(s.devices)
DeviceCount(dv) == Cardinality(Keys(dv))

\* GetDevices 187, GetDevice 199, DeviceCount 210: a caller drops its
\* previous result, calls a reading operation and is granted s.mu.RLock()
CallReadFrom(t, from, op, arg, cap) ==
    /\ pc[t] = from
    /\ api[t].calls < cap
    /\ CanRLock(smu)
    /\ smu' = RLock(smu, t)
    /\ LET apv == [api EXCEPT ![t] =
                      [ApiIdle EXCEPT !.op = op, !.arg = arg,
                                      !.calls = api[t].calls + 1,
                                      !.todo = ToCopy(op, arg, devices),
                                      !.found = (op = "GetDevice"
                                                 /\ Exists(devices, arg)),
                                      !.count = DeviceCount(devices)]]
       IN /\ api' = apv
          /\ mapHeap' = Restrict(mapHeap, MapReach(devHeap, apv))
    /\ retDeep' = [retDeep EXCEPT ![t] = <<>>]
    /\ pc' = [pc EXCEPT ![t] = "range"]
    /\ UNCHANGED <<devices, devHeap, dmu, updates, lifecycle, clock, cb,
                   sw, nEvents, nAdvances, live, applied, created, stopReturned,
                   lastDropped>>
    /\ UNCHANGED bench

\* a reading operation called by a caller that is doing nothing else
CallRead(t, op, arg, cap) == CallReadFrom(t, "idle", op, arg, cap)

\* the consumer of s.Updates (ui/app.go waitForScanUpdate, line 64): the
\* receive completes when a signal is pending; the scanUpdateMsg it returns
\* makes Model.Update refresh the device list
Receive(t, cap) ==
    /\ pc[t] = "idle"
    /\ api[t].calls < cap
    /\ updates > 0
    /\ updates' = updates - 1
    /\ pc' = [pc EXCEPT ![t] = "refresh"]
    /\ UNCHANGED <<registry, smu, lifecycle, clock, cb, sw, api, nEvents,
                   nAdvances, history>>
    /\ UNCHANGED bench

\* (mutant) the signal is answered without a re-read
RefreshSkipped(t, cap) ==
    /\ pc[t] = "refresh"
    /\ pc' = [pc EXCEPT ![t] = "idle"]
    /\ UNCHANGED <<registry, smu, updates, lifecycle, clock, cb, sw, api,
                   nEvents, nAdvances, history>>
    /\ UNCHANGED bench

\* ui/app.go lines 119-122, 145-147: refreshDevices calls GetDevices, after
\* which waitForScanUpdate is issued again
Refresh(t, cap) == CallReadFrom(t, "refresh", "GetDevices", Nil, cap)

\* GetDevices 191-192, GetDevice 203, Copy 212: the next entry to copy (the
\* range yields them in any order) and d.mu.RLock()
CopyRLock(t, a) ==
    /\ pc[t] = "range"
    /\ a \in api[t].todo
    /\ CanRLock(dmu[devices[a]])
    /\ dmu' = [dmu EXCEPT ![devices[a]] = RLock(@, t)]
    /\ api' = [api EXCEPT ![t].todo = @ \ {a}, ![t].device = devices[a]]
    /\ pc' = [pc EXCEPT ![t] = "copy"]
    /\ UNCHANGED <<devices, devHeap, mapHeap, smu, updates, lifecycle, clock,
                   cb, sw, nEvents, nAdvances, history>>
    /\ UNCHANGED bench

\* (mutant) Copy returns without releasing d.mu
CopyKeepsLock(m, t) == m

\* Copy line 213: the deferred d.mu.RUnlock()
CopyRelease(m, t) == RUnlock(m, t)

\* Copy lines 215-255: build the copy with a map of its own, release d.mu
CopyBody(t) ==
    /\ pc[t] = "copy"
    /\ LET id == api[t].device
           d == devHeap[id]
           mid == FreshId(mapHeap)
       IN /\ mapHeap' = MapSet(mapHeap, mid, mapHeap[d.ServiceData])
          /\ api' = [api EXCEPT ![t].out = Append(@, Copy(d, mid)),
                                ![t].device = NoDev]
          /\ dmu' = [dmu EXCEPT ![id] = CopyRelease(@, t)]
    /\ pc' = [pc EXCEPT ![t] = "range"]
    /\ UNCHANGED <<devices, devHeap, smu, updates, lifecycle, clock, cb, sw,
                   nEvents, nAdvances, history>>
    /\ UNCHANGED bench

\* nothing is left to copy: the deferred s.mu.RUnlock(), and the operation
\* returns its result
ReadReturn(t) ==
    /\ pc[t] = "range"
    /\ api[t].todo = {}
    /\ smu' = RUnlock(smu, t)
    /\ retDeep' = [retDeep EXCEPT ![t] = DeepSeq(mapHeap, api[t].out)]
    /\ pc' = [pc EXCEPT ![t] = "idle"]
    /\ UNCHANGED <<registry, updates, lifecycle, clock, cb, sw, api, nEvents,
                   nAdvances, live, applied, created, stopReturned, lastDropped>>
    /\ UNCHANGED bench

\* Clear line 217: s.mu.Lock() is called
ClearBegin(t, cap) ==
    /\ t = "ui"
    /\ pc[t] = "idle"
    /\ api[t].calls < cap
    /\ api' = [api EXCEPT ![t].calls = @ + 1, ![t].op = "Clear"]
    /\ smu' = LockRequest(smu, t)
    /\ pc' = [pc EXCEPT ![t] = "clear_wait"]
    /\ UNCHANGED <<registry, updates, lifecycle, clock, cb, sw, nEvents,
                   nAdvances, history>>
    /\ UNCHANGED bench

\* (mutant) Clear is granted the lock as a reader would be
ClearGuardShared(m) == m.w = None

\* Clear line 217: when the lock is granted
ClearGuard(m) == CanLock(m)

\* (mutant) Clear leaves the map as it is
ClearedMapSame == devices

\* Clear line 219: the new, empty map
ClearedMap == [a \in Addr |-> NoDev]

\* Clear lines 217-219: the lock is granted, s.devices is replaced
ClearAcquire(t) ==
    /\ pc[t] = "clear_wait"
    /\ ClearGuard(smu)
    /\ smu' = LockAcquire(smu, t)
    /\ LET keep == DevReach(ClearedMap, cb, sw, api)
           dh == Restrict(devHeap, keep)
       IN /\ devices' = ClearedMap
          /\ devHeap' = dh
          /\ dmu' = Restrict(dmu, keep)
          /\ mapHeap' = Restrict(mapHeap, MapReach(dh, api))
    /\ live' = {}
    /\ applied' = [a \in Addr |-> 0]
    /\ created' = [a \in Addr |-> 0]
    /\ pc' = [pc EXCEPT ![t] = "clear_unlock"]
    /\ UNCHANGED <<updates, lifecycle, clock, cb, sw, api, nEvents, nAdvances,
                   stopReturned, retDeep, lastDropped>>
    /\ UNCHANGED bench

\* Clear line 218: the deferred s.mu.Unlock()
ClearUnlock(t) ==
    /\ pc[t] = "clear_unlock"
    /\ smu' = Unlock(smu, t)
    /\ pc' = [pc EXCEPT ![t] = "idle"]
    /\ UNCHANGED <<registry, updates, lifecycle, clock, cb, sw, api, nEvents,
                   nAdvances, history>>
    /\ UNCHANGED bench

----------------------------------------------------------------------------
(* Specifications                                                          *)

ReadOps == {<<"GetDevices", Nil>>, <<"DeviceCount", Nil>>}
             \cup {<<"GetDevice", a>> : a \in Addr}

\* Spec: one scan callback, the sweeper, and a caller that counts, clears
\* and stops
Next ==
    \/ \E d \in ClockSteps : Advance(d, MaxAdvances)
    \/ TickerFire
    \/ Start("ui")
    \/ StopBegin("ui", MaxCalls)
    \/ StopScan("ui")
    \/ \E a \in Addr : CbBegin("cb1", Result(a, nEvents + 1), MaxEvents)
    \/ CbAcquire("cb1")
    \/ CbUpdate("cb1", FALSE)
    \/ CbNotify("cb1")
    \/ SwExit
    \/ SwTick
    \/ SwAcquire
    \/ \E a \in Addr : SwRLock(a)
    \/ SwRead
    \/ SwDone
    \/ SwNotify
    \/ CallRead("ui", "DeviceCount", Nil, MaxCalls)
    \/ ReadReturn("ui")
    \/ ClearBegin("ui", MaxCalls)
    \/ ClearAcquire("ui")
    \/ ClearUnlock("ui")

Spec == Init /\ [][Next]_vars

\* SpecUpsert: two scan callbacks in flight at once, the sweeper, and a
\* caller that clears
NextUpsert ==
    \/ \E d \in ClockSteps : Advance(d, UpsertAdvances)
    \/ TickerFire
    \/ Start("ui")
    \/ \E t \in Callbacks, a \in Addr :
          CbBegin(t, Result(a, nEvents + 1), UpsertEvents)
    \/ \E t \in Callbacks : CbAcquire(t)
    \/ \E t \in Callbacks : CbUpdate(t, FALSE)
    \/ \E t \in Callbacks : CbNotify(t)
    \/ SwTick
    \/ SwAcquire
    \/ \E a \in Addr : SwRLock(a)
    \/ SwRead
    \/ SwDone
    \/ SwNotify
    \/ ClearBegin("ui", UpsertCalls)
    \/ ClearAcquire("ui")
    \/ ClearUnlock("ui")

SpecUpsert == Init /\ [][NextUpsert]_vars

\* SpecRead: one scan callback, the sweeper, and two callers that take
\* snapshots, count and clear
NextRead ==
    \/ Advance(deviceTimeout + Microsecond, ReadAdvances)
    \/ TickerFire
    \/ Start("ui")
    \/ \E a \in Addr : CbBegin("cb1", Result(a, nEvents + 1), ReadEvents)
    \/ CbAcquire("cb1")
    \/ CbUpdate("cb1", FALSE)
    \/ CbNotify("cb1")
    \/ SwTick
    \/ SwAcquire
    \/ \E a \in Addr : SwRLock(a)
    \/ SwRead
    \/ SwDone
    \/ SwNotify
    \/ \E t \in Callers, o \in ReadOps : CallRead(t, o[1], o[2], ReadCalls)
    \/ \E t \in Callers, a \in Addr : CopyRLock(t, a)
    \/ \E t \in Callers : CopyBody(t)
    \/ \E t \in Callers : ReadReturn(t)
    \/ ClearBegin("ui", ReadCalls)
    \/ ClearAcquire("ui")
    \/ ClearUnlock("ui")

SpecRead == Init /\ [][NextRead]_vars

\* SpecFlood: one scan callback delivering events for one address, a clock
\* that moves on once before the second event is delivered, and no consumer
\* of Updates
NextFlood ==
    \/ (nEvents <= 1 /\ Advance(Microsecond, FloodAdvances))
    \/ Start("ui")
    \/ CbBegin("cb1", Result("A", nEvents + 1), FloodEvents)
    \/ CbAcquire("cb1")
    \/ CbUpdate("cb1", TRUE)
    \/ CbNotify("cb1")

SpecFlood == Init /\ [][NextFlood]_vars

----------------------------------------------------------------------------
(* Sequential specifications: events applied one after the other to one    *)
(* address, each by a whole handleAdvertisement with a given timestamp.    *)
(* The timestamps need not increase: an event is stamped before s.mu is    *)
(* taken (line 117), so two callbacks can apply theirs in either order.    *)

\* handleAdvertisement lines 168-175 without interleaving, for an event adv
\* of address a: lookup, creation, Update.  result is the scan result the
\* event was built from
ApplyEvent(a, adv, result, cap) ==
    /\ Len(fed) < cap
    /\ LET isNew == ~Exists(devices, a)
           id == IF isNew THEN FreshId(devHeap) ELSE devices[a]
           d == IF isNew THEN NewDevice(a, clock, FreshId(mapHeap))
                ELSE devHeap[id]
           m == IF isNew THEN EmptyMap ELSE mapHeap[d.ServiceData]
       IN /\ devices' = [devices EXCEPT ![a] = id]
          /\ \E order \in UpdateOrders(d, adv) :
                devHeap' = MapSet(devHeap, id, Update(d, adv, order))
          /\ mapHeap' = MapSet(mapHeap, d.ServiceData, UpdateMap(m, adv))
          /\ dmu' = MapSet(dmu, id, MuNew)
          /\ live' = live \cup {a}
          /\ applied' = [applied EXCEPT ![a] = @ + 1]
          /\ created' = [created EXCEPT ![a] = IF isNew THEN @ + 1 ELSE @]
          /\ fed' = Append(fed, [result |-> result, adv |-> adv])
    /\ UNCHANGED <<smu, updates, lifecycle, clock, pc, cb, sw, api, nEvents,
                   nAdvances, stopReturned, retDeep, lastDropped, packet>>

\* handleAdvertisement lines 115-175 without interleaving, for a scan result
\* whose event is stamped ts
HandleEvent(result, ts, cap) ==
    ApplyEvent(result.Address, BuildAdvertisement(result, ts), result, cap)

\* the timestamp of the last event applied
LastStamp == IF fed = <<>> THEN 0 ELSE fed[Len(fed)].adv.Timestamp

\* a scan result with no name, no manufacturer data and no service data
Plain(a, rssi) ==
    [Address |-> a, RSSI |-> rssi, LocalName |-> "",
     ManufacturerData |-> <<>>, ServiceData |-> <<>>]

\* SpecRing: a long run of events; the RSSI of the n-th is free among two
\* values for the first RingFree events and is -(30 + n) afterwards, so that
\* every later sample is told from every other
RingRSSI(n) == IF n <= RingFree THEN {-60, -80} ELSE {-(30 + n)}

NextRing ==
    \E rssi \in RingRSSI(Len(fed) + 1) :
        HandleEvent(Plain("A", rssi), LastStamp + 50 * Millisecond, RingEvents)

SpecRing == Init /\ [][NextRing]_vars

\* SpecInterval: events whose timestamps differ by deltas below, at, inside
\* and beyond the bounds of the plausibility filter, and by a negative one.
\* Every delta is an even number of microseconds, so that the halving of
\* medianDuration is exact here as it is in Go's nanoseconds
Deltas ==
    {-50 * Millisecond, 5 * Millisecond, MinInterval, 50 * Millisecond,
     70 * Millisecond, MaxInterval - 2 * Microsecond, MaxInterval}

NextInterval ==
    \E dl \in (IF fed = <<>> THEN {Second} ELSE Deltas) :
        HandleEvent(Plain("A", -60), LastStamp + dl, IntervalEvents)

SpecInterval == Init /\ [][NextInterval]_vars

\* SpecMerge: events with and without a name, manufacturer data (two
\* company ids) and service data; the RSSI alternates between -60 and -80
MergeResults(n) ==
    {[Address |-> "A", RSSI |-> IF n % 2 = 1 THEN -60 ELSE -80,
      LocalName |-> name, ManufacturerData |-> mfg, ServiceData |-> sd] :
        name \in {"", "x"},
        mfg \in {<<>>, <<[CompanyID |-> 76, Data |-> <<1, 2>>]>>,
                 <<[CompanyID |-> 4660, Data |-> <<>>],
                   [CompanyID |-> 76, Data |-> <<1, 2>>]>>},
        sd \in {<<>>, <<[UUID |-> "u1", Data |-> <<7>>]>>}}

NextMerge ==
    \E r \in MergeResults(Len(fed) + 1) :
        HandleEvent(r, LastStamp + 50 * Millisecond, MergeEvents)

SpecMerge == Init /\ [][NextMerge]_vars

\* SpecUpdate: Update applied to the Device of one address with events
\* given as Advertisement values, as a source with pre-decoded fields
\* supplies them.  Each event sets the fields of one group (name,
\* manufacturer payload, services, one optional field) or none; a
\* manufacturer payload may be a single byte, an optional field may point
\* at zero
Event(ts, name, mfg, uuids, sd, tx, fl, ap) ==
    [NewAdvertisement(ts) EXCEPT
        !.RSSI = -60, !.LocalName = name, !.ManufacturerData = mfg,
        !.ServiceUUIDs = uuids, !.ServiceData = sd, !.TxPowerLevel = tx,
        !.Flags = fl, !.Appearance = ap]

UpdateEvents(ts) ==
    {Event(ts, n, <<>>, <<>>, EmptyMap, Absent, Absent, Absent) :
        n \in {"", "x", "y"}}
    \cup {Event(ts, "", m, <<>>, EmptyMap, Absent, Absent, Absent) :
            m \in {<<76>>, <<76, 0, 1, 2>>, <<52, 18>>}}
    \cup {Event(ts, "", <<>>, u, sd, Absent, Absent, Absent) :
            u \in {<<>>, <<"u1">>, <<"u2", "u1">>},
            sd \in {EmptyMap, "u1" :> <<7>>,
                    ("u1" :> <<8>>) @@ ("u2" :> <<9>>)}}
    \cup {Event(ts, "", <<>>, <<>>, EmptyMap, o[1], o[2], o[3]) :
            o \in {<<<<-4>>, Absent, Absent>>, <<<<0>>, Absent, Absent>>,
                   <<Absent, <<6>>, Absent>>, <<Absent, <<0>>, Absent>>,
                   <<Absent, Absent, <<192>>>>, <<Absent, Absent, <<0>>>>}}

NextUpdate ==
    \E adv \in UpdateEvents(LastStamp + 50 * Millisecond) :
        ApplyEvent("A", adv, Plain("A", adv.RSSI), UpdateCalls)

SpecUpdate == Init /\ [][NextUpdate]_vars

\* SpecParse: ParseADTypes called once on an Advertisement whose raw payload
\* is any byte sequence of at most ParseLen bytes over a few byte values:
\* 0 (a zero length), small lengths, and a value used as a type code
Bytes == {0, 1, 2, 3, 9}

RawPayloads == UNION {[1..n -> Bytes] : n \in 0..ParseLen}

InitParse ==
    /\ InitScanner
    /\ fed = <<>>
    /\ packet \in {[a |-> [NoAdv EXCEPT !.RawData = raw], called |-> FALSE] :
                     raw \in RawPayloads}

CallParse ==
    /\ ~packet.called
    /\ packet' = [a |-> ParseADTypes(packet.a), called |-> TRUE]
    /\ UNCHANGED <<registry, smu, updates, lifecycle, clock, pc, cb, sw, api,
                   nEvents, nAdvances, history, fed>>

NextParse == CallParse

SpecParse == InitParse /\ [][NextParse]_vars

\* (mutant) the type byte is read without the check of line 70
ParseStepUnchecked(p) ==
    LET raw == p.a.RawData
        byte(i) == IF i < Len(raw) THEN raw[i + 1] ELSE 0
    IN CASE p.at = "entry" ->
              IF Len(raw) = 0 THEN [p EXCEPT !.at = "done"]
              ELSE [p EXCEPT !.at = "loop", !.offset = 0, !.types = <<>>]
         [] p.at = "loop" /\ p.offset >= Len(raw) -> [p EXCEPT !.at = "store"]
         [] p.at = "loop" /\ p.offset < Len(raw) ->
              LET length == byte(p.offset)
                  r1 == Append(p.reads, p.offset)
              IN IF length = 0
                 THEN [p EXCEPT !.at = "store", !.reads = r1]
                 ELSE [p EXCEPT !.offset = p.offset + 1 + length,
                                !.types = Append(@, byte(p.offset + 1)),
                                !.reads = Append(r1, p.offset + 1)]
         [] p.at = "store" -> [p EXCEPT !.at = "done", !.a.ADTypes = p.types]

\* ParseADTypes step by step: the entry (lines 51-56), one iteration of the
\* loop (lines 58-79) or its exit, and the final assignment (line 81). p
\* holds the Advertisement, the position, the locals offset and types, and
\* the 0-based indices of RawData read so far
ParseStep(p) ==
    LET raw == p.a.RawData
        byte(i) == IF i < Len(raw) THEN raw[i + 1] ELSE 0
    IN CASE p.at = "entry" ->
              IF Len(raw) = 0 THEN [p EXCEPT !.at = "done"]
              ELSE [p EXCEPT !.at = "loop", !.offset = 0, !.types = <<>>]
         [] p.at = "loop" /\ p.offset >= Len(raw) -> [p EXCEPT !.at = "store"]
         [] p.at = "loop" /\ p.offset < Len(raw) ->
              LET length == byte(p.offset)
                  r1 == Append(p.reads, p.offset)
              IN IF length = 0
                 THEN [p EXCEPT !.at = "store", !.reads = r1]
                 ELSE IF p.offset + 1 >= Len(raw)
                 THEN [p EXCEPT !.at = "store", !.offset = p.offset + 1,
                                !.reads = r1]
                 ELSE [p EXCEPT !.offset = p.offset + 1 + length,
                                !.types = Append(@, byte(p.offset + 1)),
                                !.reads = Append(r1, p.offset + 1)]
         [] p.at = "store" -> [p EXCEPT !.at = "done", !.a.ADTypes = p.types]

\* SpecLoop: ParseADTypes run step by step to its return on an Advertisement
\* that already carries the type code 255 and whose raw payload is any of
\* RawPayloads. The call is not interrupted, so each step is taken
InitLoop ==
    /\ InitScanner
    /\ fed = <<>>
    /\ packet \in {[a |-> [NoAdv EXCEPT !.RawData = raw, !.ADTypes = <<255>>],
                     at |-> "entry", offset |-> 0, types |-> <<>>,
                     reads |-> <<>>] : raw \in RawPayloads}

ParseRun ==
    /\ packet.at # "done"
    /\ packet' = ParseStep(packet)
    /\ UNCHANGED <<registry, smu, updates, lifecycle, clock, pc, cb, sw, api,
                   nEvents, nAdvances, history, fed>>

SpecLoop == InitLoop /\ [][ParseRun]_vars /\ WF_vars(ParseRun)

\* the steps of the goroutines that the Go scheduler runs once they can run
SweeperStep ==
    \/ SwExit
    \/ SwTick
    \/ SwAcquire
    \/ \E a \in Addr : SwRLock(a)
    \/ SwRead
    \/ SwDone
    \/ SwNotify

CallbackStep == CbAcquire("cb1") \/ CbUpdate("cb1", FALSE) \/ CbNotify("cb1")

\* the amount by which the clock advances in SpecLive: past the window
LiveSteps == {deviceTimeout + Microsecond}

\* SpecLive: one scan callback, the sweeper, the ticker and Stop, with the
\* scheduler's fairness: a goroutine that can take its next step takes it,
\* a due tick is delivered, StopScan returns.  Events, clock advances and
\* the call of Stop are the environment's and are not forced.
NextLive ==
    \/ \E d \in LiveSteps : Advance(d, LiveAdvances)
    \/ TickerFire
    \/ Start("ui")
    \/ StopBegin("ui", LiveCalls)
    \/ StopScan("ui")
    \/ \E a \in Addr : CbBegin("cb1", Result(a, nEvents + 1), LiveEvents)
    \/ CbAcquire("cb1")
    \/ CbUpdate("cb1", FALSE)
    \/ CbNotify("cb1")
    \/ SwExit
    \/ SwTick
    \/ SwAcquire
    \/ \E a \in Addr : SwRLock(a)
    \/ SwRead
    \/ SwDone
    \/ SwNotify

SpecLive ==
    /\ Init
    /\ [][NextLive]_vars
    /\ WF_vars(SweeperStep)
    /\ WF_vars(CallbackStep)
    /\ WF_vars(TickerFire)
    /\ WF_vars(StopScan("ui"))

\* the steps of a reading operation once s.mu.RLock() is granted, and of
\* Clear once it has called s.mu.Lock()
ReaderStep(t) ==
    \/ \E a \in Addr : CopyRLock(t, a)
    \/ CopyBody(t)
    \/ ReadReturn(t)

ClearRun(t) == ClearAcquire(t) \/ ClearUnlock(t)

\* SpecFair: one scan callback, the sweeper and the ticker, a caller that
\* takes snapshots and counts and a caller that clears, with the scheduler's
\* fairness: a goroutine that can take its next step takes it (a lock that
\* is free is granted to a goroutine waiting for it).  Events, clock
\* advances and the calls of the API are the environment's.
\*
\* It begins where the scanner is once Start has run at time 0, the signals
\* of UpdatesCap - 1 events have been left unreceived in s.Updates and Clear
\* has emptied the map: the next signal fills the channel and every later
\* one finds it full.  nEvents counts the events delivered from there on.
InitFair ==
    /\ devices = [a \in Addr |-> NoDev]
    /\ devHeap = EmptyMap
    /\ dmu = EmptyMap
    /\ mapHeap = EmptyMap
    /\ smu = MuNew
    /\ updates = UpdatesCap - 1
    /\ scanning = TRUE
    /\ started = TRUE
    /\ stopClosed = FALSE
    /\ ticker = [running |-> TRUE, pending |-> FALSE, next |-> cleanupInterval]
    /\ scanStopped = FALSE
    /\ clock = 0
    /\ pc = [t \in Threads |-> IF t = Sweeper THEN "select" ELSE "idle"]
    /\ cb = [t \in Callbacks |-> CbIdle]
    /\ sw = SwIdle
    /\ api = [t \in Callers |-> ApiIdle]
    /\ nEvents = 0
    /\ nAdvances = 0
    /\ live = {}
    /\ applied = [a \in Addr |-> 0]
    /\ created = [a \in Addr |-> 0]
    /\ stopReturned = FALSE
    /\ retDeep = [t \in Callers |-> <<>>]
    /\ lastDropped = FALSE
    /\ fed = <<>>
    /\ packet = PacketIdle

NextFair ==
    \/ Advance(deviceTimeout + Microsecond, FairAdvances)
    \/ TickerFire
    \/ \E a \in Addr : CbBegin("cb1", Result(a, nEvents + 1), FairEvents)
    \/ CbAcquire("cb1")
    \/ CbUpdate("cb1", FALSE)
    \/ CbNotify("cb1")
    \/ SwTick
    \/ SwAcquire
    \/ \E a \in Addr : SwRLock(a)
    \/ SwRead
    \/ SwDone
    \/ SwNotify
    \/ \E o \in ReadOps : CallRead("rd", o[1], o[2], FairCalls)
    \/ \E a \in Addr : CopyRLock("rd", a)
    \/ CopyBody("rd")
    \/ ReadReturn("rd")
    \/ ClearBegin("ui", FairCalls)
    \/ ClearAcquire("ui")
    \/ ClearUnlock("ui")

SpecFair ==
    /\ InitFair
    /\ [][NextFair]_vars
    /\ WF_vars(SweeperStep)
    /\ WF_vars(CallbackStep)
    /\ WF_vars(TickerFire)
    /\ WF_vars(ReaderStep("rd"))
    /\ WF_vars(ClearRun("ui"))

\* The scanner with the consumer of its Updates channel (ui/app.go): each
\* signal received is answered with one GetDevices. The run starts either
\* before Start with an empty channel or, as in SpecFair, with one free
\* slot.
NextWake ==
    \/ Advance(deviceTimeout + Microsecond, WakeAdvances)
    \/ TickerFire
    \/ Start("ui")
    \/ \E a \in Addr : CbBegin("cb1", Result(a, nEvents + 1), WakeEvents)
    \/ CallbackStep
    \/ SwTick
    \/ SwAcquire
    \/ \E a \in Addr : SwRLock(a)
    \/ SwRead
    \/ SwDone
    \/ SwNotify
    \/ Receive("rd", WakeReads)
    \/ Refresh("rd", WakeReads)
    \/ \E a \in Addr : CopyRLock("rd", a)
    \/ CopyBody("rd")
    \/ ReadReturn("rd")

SpecWake == (Init \/ InitFair) /\ [][NextWake]_vars

\* The registry seeing an address again: the first event of the run is a
\* named one with manufacturer data, the next an anonymous one, and between
\* them the sweeper or Clear may remove the device.
NextAgain ==
    \/ Advance(deviceTimeout + Microsecond, AgainAdvances)
    \/ TickerFire
    \/ Start("ui")
    \/ \E a \in Addr : CbBegin("cb1", Result(a, nEvents + 2), AgainEvents)
    \/ CallbackStep
    \/ SwTick
    \/ SwAcquire
    \/ \E a \in Addr : SwRLock(a)
    \/ SwRead
    \/ SwDone
    \/ SwNotify
    \/ ClearBegin("ui", AgainCalls)
    \/ ClearRun("ui")

SpecAgain == Init /\ [][NextAgain]_vars

----------------------------------------------------------------------------
(* Positions of the threads                                                *)

\* threads inside a structural mutation of the map: device creation and
\* update in handleAdvertisement, the removal pass of the sweep, Clear
InMutation ==
    {t \in Callbacks : pc[t] = "update"}
      \cup {t \in {Sweeper} : pc[t] \in {"range", "read"}}
      \cup {t \in Callers : pc[t] = "clear_unlock"}

\* threads inside GetDevices, GetDevice or DeviceCount
InRead == {t \in Callers : pc[t] \in {"range", "copy"}}

HoldsDeviceLock(t) ==
    \E id \in DOMAIN dmu : dmu[id].w = t \/ t \in dmu[id].r

HoldsRegistryLock(t) == smu.w = t \/ t \in smu.r

\* the device locks a thread is about to ask for
WantedDevices(t) ==
    IF t \in Callbacks
    THEN IF pc[t] = "wait" /\ smu.w = None /\ smu.r = {}
              /\ Exists(devices, cb[t].address)
         THEN {devices[cb[t].address]} ELSE {}
    ELSE IF t = Sweeper
    THEN IF pc[t] = "range" THEN {devices[a] : a \in sw.todo} ELSE {}
    ELSE IF pc[t] = "range" THEN {devices[a] : a \in api[t].todo} ELSE {}

\* the threads that keep t from its next step: the holders of the registry
\* lock it waits for, or of every device lock it could take next
BlockedBy(t) ==
    LET reg == IF t \in smu.p
               THEN ({smu.w} \cup smu.r) \ {None, t} ELSE {}
        wd == WantedDevices(t)
        dev == IF wd # {} /\ \A id \in wd : dmu[id].w # None
               THEN {dmu[id].w : id \in wd} \ {t} ELSE {}
    IN reg \cup dev

\* a set of threads each of which waits for a lock held inside the set
WaitCycle(S) == S # {} /\ \A t \in S : BlockedBy(t) \cap S # {}

----------------------------------------------------------------------------
(* Claims                                                                  *)

\* C1: whenever DeviceCount can read the map (no writer holds s.mu), the
\* count equals the number of distinct addresses upserted and not since
\* removed by a sweep or by Clear, and the map holds one Device object per
\* address, each under its own address.
C1_CountIsLiveAddresses ==
    /\ smu.w = None =>
          /\ DeviceCount(devices) = Cardinality(live)
          /\ Keys(devices) = live
    /\ \A a \in Keys(devices) :
          /\ devHeap[devices[a]].Address = a
          /\ \A b \in Keys(devices) : devices[a] = devices[b] => a = b

\* C1 witness: two events were delivered, one address was removed again and
\* exactly the other is counted
C1_Witness ==
    /\ smu.w = None
    /\ nEvents = 2
    /\ live = {"B"}
    /\ applied["B"] = 1
    /\ DeviceCount(devices) = 1
    /\ \A t \in Callbacks : pc[t] = "idle"

\* C2: a result returned by GetDevices or GetDevice reads the same, in every
\* field and through its service-data map, as when it was returned, whatever
\* happens to the registry afterwards.
C2_SnapshotIsolation ==
    \A t \in Callers :
        pc[t] = "idle" => DeepSeq(mapHeap, api[t].out) = retDeep[t]

\* C2 witness: a caller holds a copy of a device that has been updated since
C2_Witness ==
    \E t \in Callers : \E i \in DOMAIN api[t].out :
        LET c == api[t].out[i] IN
        /\ pc[t] = "idle"
        /\ Exists(devices, c.Address)
        /\ devHeap[devices[c.Address]].AdvCount > c.AdvCount
        /\ mapHeap[devHeap[devices[c.Address]].ServiceData]
             # mapHeap[c.ServiceData]

\* C3: per address, at most one Device has been created since the address
\* was last removed, and the Device in the map has had every event applied
\* that was applied to the address since then.
C3_AtomicUpsert ==
    \A a \in Addr :
        /\ created[a] <= 1
        /\ Exists(devices, a) =>
              /\ created[a] = 1
              /\ devHeap[devices[a]].AdvCount = applied[a]

\* C3 witness: both callbacks are in flight for the same unseen address; one
\* has created the Device, the other waits for the lock; and later both
\* events are on the one Device
C3_Witness ==
    /\ pc["cb1"] = "update"
    /\ pc["cb2"] = "wait"
    /\ cb["cb1"].address = cb["cb2"].address
    /\ created[cb["cb1"].address] = 1
    /\ applied[cb["cb1"].address] = 0

\* C4: while Update runs for one address, GetDevice for another address in
\* the registry can be granted its lock without waiting.
C4_UpdateBlocksNoOtherDevice ==
    \A t \in Callbacks :
        pc[t] = "update" =>
            \A b \in Keys(devices) \ {cb[t].address} : CanRLock(smu)

\* C5: a thread that holds a per-device lock holds the registry lock already
\* and is not waiting for it, and no set of threads waits in a cycle.
C5_LockOrder ==
    /\ \A t \in Threads :
          HoldsDeviceLock(t) => (HoldsRegistryLock(t) /\ t \notin smu.p)
    /\ \A S \in SUBSET Threads : ~WaitCycle(S)

\* C5 witness: a reader copies a device, holding both locks, while a writer
\* waits for the registry lock
C5_Witness ==
    \E t \in Callers :
        /\ pc[t] = "copy"
        /\ HoldsDeviceLock(t)
        /\ smu.p # {}

\* C6: at most one thread is inside a structural mutation of the map, and
\* while one is, no thread is inside GetDevices, GetDevice or DeviceCount.
C6_MutationsExclusive ==
    /\ Cardinality(InMutation) <= 1
    /\ InMutation # {} => InRead = {}

\* C6 witness: two reading operations overlap
C6_Witness == InRead = Callers

\* C7: the Updates channel never holds more than its capacity, and a
\* producer at its notification always completes it at once.
C7_NotifyBounded ==
    /\ updates <= UpdatesCap
    /\ \A t \in Callbacks : pc[t] = "notify" => ENABLED CbNotify(t)
    /\ lastDropped => updates = UpdatesCap

\* C7 witness: the channel is full, a signal was dropped and the producer
\* has gone on
C7_Witness ==
    /\ updates = UpdatesCap
    /\ lastDropped
    /\ nEvents > UpdatesCap
    /\ pc["cb1"] = "idle"

\* C8: at the end of a removal pass taken at time now, no device older than
\* the staleness window is in the map, and every device that was within the
\* window (boundary included) is still there, unchanged.
C8_SweepPostcondition ==
    (pc[Sweeper] = "range" /\ sw.todo = {}) =>
        /\ \A a \in Keys(devices) :
              sw.now - devHeap[devices[a]].LastSeen <= deviceTimeout
        /\ \A a \in Keys(sw.pre.devices) :
              LET d == sw.pre.devHeap[sw.pre.devices[a]] IN
              sw.now - d.LastSeen <= deviceTimeout =>
                  /\ devices[a] = sw.pre.devices[a]
                  /\ devHeap[devices[a]] = d
                  /\ mapHeap[d.ServiceData] = sw.pre.mapHeap[d.ServiceData]

\* C8 witness: a pass that removed a device and kept one exactly at the
\* boundary
C8_Witness ==
    /\ pc[Sweeper] = "range"
    /\ sw.todo = {}
    /\ sw.removed
    /\ \E a \in Keys(devices) :
          sw.now - devHeap[devices[a]].LastSeen = deviceTimeout

\* C9: once Stop has returned, no step of the eviction goroutine changes
\* the map.
C9_NoEvictionAfterStop ==
    [][(stopReturned /\ pc'[Sweeper] # pc[Sweeper]) => devices' = devices]_vars

\* C10: once Stop has returned, no step of a scan callback creates a Device
\* or changes one.
C10_NoEventAfterStop ==
    [][(stopReturned /\ \E t \in Callbacks : pc'[t] # pc[t])
          => (devices' = devices /\ devHeap' = devHeap)]_vars

\* C12: one removal pass puts at most one signal in Updates however many
\* devices it removed, and none when it removed no device.
C12_OneSignalPerSweep ==
    /\ sw.sent <= 1
    /\ sw.evicted = {} => sw.sent = 0

\* C12 witness: a pass removed two devices and has sent its one signal
C12_Witness ==
    /\ pc[Sweeper] = "select"
    /\ Cardinality(sw.evicted) = 2
    /\ sw.sent = 1

\* C11: once Stop has closed stopChan on a started scanner, the eviction
\* goroutine eventually returns from its loop, with the ticker stopped.
C11_SweeperExits ==
    stopClosed ~> (pc[Sweeper] = "exited" /\ ~ticker.running)

\* C11 witness: Stop was called during a removal pass with a tick still in
\* the ticker's channel, and the goroutine has returned
C11_Witness ==
    /\ stopReturned
    /\ pc[Sweeper] = "exited"
    /\ ~ticker.running
    /\ ticker.pending

\* a device for the address is in the map and is older than the window
StaleNow(a) ==
    /\ Exists(devices, a)
    /\ clock - devHeap[devices[a]].LastSeen > deviceTimeout

\* C13: while the scanner runs, a device older than the window with a tick
\* due or delivered is eventually removed, unless the scanner is stopped or
\* the device is seen again first.
C13_StaleEvicted ==
    \A a \in Addr :
        (StaleNow(a) /\ ~stopClosed /\ ticker.running
           /\ (ticker.pending \/ clock >= ticker.next))
        ~> (~Exists(devices, a) \/ stopClosed \/ ~StaleNow(a))

\* C13 witness: a pass has removed a device while the scanner was running
C13_Witness ==
    /\ ~stopClosed
    /\ sw.evicted # {}
    /\ \A a \in sw.evicted : ~Exists(devices, a)

\* the Device of address A and the RSSI of every event applied to it
DeviceA == devHeap[devices["A"]]
FedRSSI == [i \in DOMAIN fed |-> fed[i].adv.RSSI]

\* C14: after n >= 1 updates RSSIHistory is the last min(n, 20) RSSI samples
\* in arrival order, never longer than 20; after 21 updates it is samples 2
\* to 21.
C14_RSSIRing ==
    fed # <<>> =>
        LET n == Len(fed)
            k == IF n < 20 THEN n ELSE 20
        IN /\ Len(DeviceA.RSSIHistory) <= 20
           /\ DeviceA.RSSIHistory = SubSeq(FedRSSI, n - k + 1, n)
           /\ n = 21 => DeviceA.RSSIHistory = SubSeq(FedRSSI, 2, 21)

\* C14 witness: 22 updates, the ring is full and starts at sample 3, which
\* differs from the samples dropped
C14_Witness ==
    /\ Len(fed) = 22
    /\ Len(DeviceA.RSSIHistory) = 20
    /\ DeviceA.RSSIHistory[1] = FedRSSI[3]
    /\ FedRSSI[3] # FedRSSI[2]
    /\ FedRSSI[3] # FedRSSI[1]

\* C15: after every update the stored RSSIAverage is the mean of the
\* samples retained in RSSIHistory: average * length = sum.
C15_AverageIsMean ==
    fed # <<>> =>
        /\ DeviceA.RSSIAverage.n > 0
        /\ DeviceA.RSSIAverage.sum * Len(DeviceA.RSSIHistory)
             = SumSeq(DeviceA.RSSIHistory) * DeviceA.RSSIAverage.n

\* C15 witness: samples have been dropped from the ring and the average is
\* not the mean of all samples received, nor a whole number
C15_Witness ==
    /\ Len(fed) = 23
    /\ Len(DeviceA.RSSIHistory) = 20
    /\ DeviceA.RSSIAverage.sum * Len(fed) # SumSeq(FedRSSI) * DeviceA.RSSIAverage.n
    /\ DeviceA.RSSIAverage.sum % DeviceA.RSSIAverage.n # 0

\* the retained log's deltas that lie in [10ms, 10s), by position
LogDelta(i) ==
    DeviceA.Advertisements[i + 1].Timestamp - DeviceA.Advertisements[i].Timestamp
Surviving ==
    {i \in 1..(Len(DeviceA.Advertisements) - 1) :
        LogDelta(i) >= 10 * Millisecond /\ LogDelta(i) < 10 * Second}

\* the k-th smallest of the surviving deltas, by rank
KthSurviving(k) ==
    LogDelta(CHOOSE i \in Surviving :
        /\ Cardinality({j \in Surviving : LogDelta(j) < LogDelta(i)}) < k
        /\ Cardinality({j \in Surviving : LogDelta(j) <= LogDelta(i)}) >= k)

\* C16: AdvInterval is 0 after an update whenever the log retains fewer than
\* 5 entries or fewer than 3 of its consecutive deltas lie in [10ms, 10s).
C16_IntervalUnknown ==
    fed # <<>> =>
        ((Len(DeviceA.Advertisements) < 5 \/ Cardinality(Surviving) < 3)
            => DeviceA.AdvInterval = 0)

\* C16 witness: five entries with exactly two surviving deltas (one delta
\* is 10s, one is negative), and no interval
C16_Witness ==
    /\ Len(fed) = 5
    /\ Len(DeviceA.Advertisements) = 5
    /\ Cardinality(Surviving) = 2
    /\ \E i \in 1..4 : LogDelta(i) = 10 * Second
    /\ \E i \in 1..4 : LogDelta(i) < 0
    /\ DeviceA.AdvInterval = 0

\* C17: with at least 5 entries and at least 3 deltas in [10ms, 10s),
\* AdvInterval is the median of exactly those deltas, the two middle ones
\* averaged for an even count; deltas of 50ms four times give 50ms, and
\* 5ms followed by 50ms three times give 50ms.
C17_IntervalIsMedian ==
    (fed # <<>> /\ Len(DeviceA.Advertisements) >= 5
       /\ Cardinality(Surviving) >= 3) =>
        LET n == Cardinality(Surviving)
            all50 == \A i \in 1..4 : LogDelta(i) = 50 * Millisecond
            noisy == /\ LogDelta(1) = 5 * Millisecond
                     /\ \A i \in 2..4 : LogDelta(i) = 50 * Millisecond
        IN /\ DeviceA.AdvInterval =
                IF n % 2 = 0
                THEN (KthSurviving(n \div 2) + KthSurviving(n \div 2 + 1)) \div 2
                ELSE KthSurviving(n \div 2 + 1)
           /\ (Len(fed) = 5 /\ (all50 \/ noisy))
                => DeviceA.AdvInterval = 50 * Millisecond

\* C17 witness: four surviving deltas whose two middle ones differ (10ms,
\* 50ms, 70ms and one just under 10s), the interval being their average
C17_Witness ==
    /\ Len(fed) = 6
    /\ Cardinality(Surviving) = 4
    /\ \E i \in Surviving : LogDelta(i) = 10 * Millisecond
    /\ \E i \in Surviving : LogDelta(i) = 10 * Second - 2 * Microsecond
    /\ \E i \in 1..5 : LogDelta(i) = 5 * Millisecond
    /\ DeviceA.AdvInterval = 60 * Millisecond

\* the type codes of all events applied so far
FedTypes == UNION {Range(fed[i].adv.ADTypes) : i \in DOMAIN fed}

\* C18: after each update ADTypes holds exactly the type codes of all the
\* events applied so far, each once (so it never loses a code and never
\* holds one twice).
C18_TypesAreUnion ==
    fed # <<>> =>
        /\ Range(DeviceA.ADTypes) = FedTypes
        /\ Len(DeviceA.ADTypes) = Cardinality(FedTypes)

\* C18 witness: three events, the last with no type code at all; the four
\* codes of the earlier ones are kept, in an order that is not ascending
C18_Witness ==
    /\ Len(fed) = 3
    /\ fed[3].adv.ADTypes = <<>>
    /\ fed[1].adv.ADTypes # fed[2].adv.ADTypes
    /\ DeviceA.ADTypes = <<255, 22, 9, 3>>

\* the last event applied that carried manufacturer data
LastWithMfg ==
    {i \in DOMAIN fed :
        /\ fed[i].result.ManufacturerData # <<>>
        /\ \A j \in DOMAIN fed : j > i => fed[j].result.ManufacturerData = <<>>}

\* C19: the manufacturer id stored is byte0 + 256 * byte1 of the payload,
\* which is the company id the scan result carried; two events with RSSI -60
\* then -80 and payload 4C 00 01 02 give id 0x004C, average -70 and count 2.
C19_ManufacturerId ==
    /\ \A i \in LastWithMfg :
          /\ DeviceA.ManufacturerID
               = <<fed[i].result.ManufacturerData[1].CompanyID>>
          /\ DeviceA.ManufacturerID
               = <<fed[i].adv.ManufacturerData[1]
                   + 256 * fed[i].adv.ManufacturerData[2]>>
          /\ DeviceA.ManufacturerData = fed[i].adv.ManufacturerData
    /\ (Len(fed) = 2 /\ FedRSSI = <<-60, -80>>
          /\ \A i \in 1..2 : fed[i].adv.ManufacturerData = <<76, 0, 1, 2>>)
        => /\ DeviceA.ManufacturerID = <<76>>
           /\ DeviceA.RSSIAverage.sum = -70 * DeviceA.RSSIAverage.n
           /\ DeviceA.AdvCount = 2

\* C19 witness: the scenario of the two events has happened
C19_Witness ==
    /\ Len(fed) = 2
    /\ FedRSSI = <<-60, -80>>
    /\ \A i \in 1..2 : fed[i].adv.ManufacturerData = <<76, 0, 1, 2>>
    /\ DeviceA.ManufacturerID = <<76>>
    /\ DeviceA.RSSIAverage = [sum |-> -140, n |-> 2]
    /\ DeviceA.AdvCount = 2

\* the type codes of the records that lie whole inside the payload, from a
\* 0-based offset up to the first record with a zero length or with a
\* length that runs past the end
RECURSIVE WholeRecordTypes(_, _)
WholeRecordTypes(raw, offset) ==
    IF offset >= Len(raw) THEN <<>>
    ELSE LET length == raw[offset + 1]
         IN IF length = 0 \/ offset + 1 + length > Len(raw) THEN <<>>
            ELSE <<raw[offset + 2]>>
                   \o WholeRecordTypes(raw, offset + 1 + length)

\* C20: for any raw payload, ParseADTypes leaves in ADTypes the type codes
\* of exactly the records that precede the first invalid one (zero length,
\* or a length overrunning the buffer), in order.
C20_PartialDecode ==
    packet.called =>
        packet.a.ADTypes = WholeRecordTypes(packet.a.RawData, 0)

\* the payload is, from a 0-based offset to its end, a sequence of records
\* [length][type][payload] with length >= 1, the last ending where the
\* payload ends
RECURSIVE WellFormed(_, _)
WellFormed(raw, offset) ==
    \/ offset = Len(raw)
    \/ /\ offset < Len(raw)
       /\ raw[offset + 1] >= 1
       /\ offset + 1 + raw[offset + 1] <= Len(raw)
       /\ WellFormed(raw, offset + 1 + raw[offset + 1])

\* C21: after ParseADTypes on a well-formed sequence of records, the type
\* code of every record is in ADTypes, whatever the code is.
C21_EveryTypeRecorded ==
    (packet.called /\ WellFormed(packet.a.RawData, 0)) =>
        \A code \in Range(WholeRecordTypes(packet.a.RawData, 0)) :
            code \in Range(packet.a.ADTypes)

\* C21 witness: two records, the first with a payload, of types 9 and 0
C21_Witness ==
    /\ packet.called
    /\ packet.a.RawData = <<2, 9, 3, 1, 0>>
    /\ WellFormed(packet.a.RawData, 0)
    /\ packet.a.ADTypes = <<9, 0>>

\* a caller is at the return of the operation, its read lock still held
AtReturn(t, op) == pc[t] = "range" /\ api[t].todo = {} /\ api[t].op = op

\* the addresses of the copies a caller has collected
OutAddresses(t) == {api[t].out[i].Address : i \in DOMAIN api[t].out}

\* C22: what GetDevices returns holds one copy per address in the registry
\* and nothing else, each equal to the Device it was copied from; GetDevice
\* reports found exactly when the address is in the registry and then
\* returns the copy of that address, else no copy.
C22_SnapshotComplete ==
    \A t \in Callers :
        /\ AtReturn(t, "GetDevices") =>
              /\ OutAddresses(t) = Keys(devices)
              /\ Len(api[t].out) = Cardinality(Keys(devices))
              /\ \A i \in DOMAIN api[t].out :
                    Deep(mapHeap, api[t].out[i])
                      = Deep(mapHeap, devHeap[devices[api[t].out[i].Address]])
        /\ AtReturn(t, "GetDevice") =>
              /\ api[t].found = Exists(devices, api[t].arg)
              /\ api[t].found =>
                    /\ Len(api[t].out) = 1
                    /\ api[t].out[1].Address = api[t].arg
              /\ ~api[t].found => api[t].out = <<>>

\* C22 witness: events for two addresses were applied and one was removed
\* since; GetDevices returns the one copy while GetDevice for the removed
\* address has returned not found
C22_Witness ==
    \E t, u \in Callers :
        /\ AtReturn(t, "GetDevices")
        /\ Len(api[t].out) = 1
        /\ nEvents = 2
        /\ Cardinality(live) = 1
        /\ pc[u] = "idle"
        /\ api[u].op = "GetDevice"
        /\ api[u].arg \notin live
        /\ ~api[u].found
        /\ sw.evicted = {api[u].arg}

\* a step of Clear: the call of Lock, the replacement of the map, the Unlock
ClearStep == pc'["ui"] # pc["ui"] /\ api'["ui"].op = "Clear"

\* a step by which a scan callback puts a Device in the map
UpsertStep == \E t \in Callbacks : pc[t] = "wait" /\ pc'[t] = "update"

\* C23: Clear leaves the map empty, and an empty map stays empty until a
\* scan callback upserts; while it is empty DeviceCount reads 0 and
\* GetDevices collects nothing; no step of Clear touches the scanning flag,
\* the stop channel, the ticker, the eviction goroutine or a callback.
C23_ClearEmpties ==
    /\ [](\A t \in InRead :
            Keys(devices) = {} =>
                (api[t].count = 0 /\ api[t].out = <<>> /\ api[t].todo = {}))
    /\ [][ /\ (pc["ui"] = "clear_wait" /\ pc'["ui"] = "clear_unlock")
               => Keys(devices') = {}
           /\ (Keys(devices) = {} /\ Keys(devices') # {}) => UpsertStep
           /\ ClearStep =>
                 /\ UNCHANGED <<lifecycle, cb, sw, nEvents, updates>>
                 /\ pc'[Sweeper] = pc[Sweeper]
                 /\ \A t \in Callbacks : pc'[t] = pc[t]]_vars

\* C23 witness: the one event delivered was applied, nothing was ever
\* evicted, Clear has returned, and GetDevices is returning no copy while
\* the scanner still runs
C23_Witness ==
    /\ nEvents = 1
    /\ pc["cb1"] = "idle"
    /\ nAdvances = 0
    /\ pc["ui"] = "idle"
    /\ api["ui"].op = "Clear"
    /\ AtReturn("rd", "GetDevices")
    /\ api["rd"].out = <<>>
    /\ scanning
    /\ ticker.running
    /\ pc[Sweeper] # "exited"

\* the positions at which a thread is inside no operation
AtRest(t) == pc[t] \in {"idle", "select", "exited"}

\* C24: under fair scheduling every upsert, removal pass, GetDevices,
\* GetDevice, DeviceCount and Clear that has begun returns, and the registry
\* lock never stays out of a reader's reach: no operation waits forever for
\* a lock or for the Updates channel.
C24_OperationsComplete ==
    /\ \A t \in {"cb1", Sweeper, "rd", "ui"} : (~AtRest(t)) ~> AtRest(t)
    /\ (~CanRLock(smu)) ~> CanRLock(smu)

\* C24 witness: Clear and the sweeper both wait for the registry lock while
\* a reader holds it and copies a device, and the last signal was dropped
\* because the Updates channel is full
C24_Witness ==
    /\ pc["ui"] = "clear_wait"
    /\ pc[Sweeper] = "wait"
    /\ pc["rd"] = "copy"
    /\ smu.p = {"ui", Sweeper}
    /\ updates = UpdatesCap
    /\ lastDropped

\* C25: the locked part of an upsert for an address (lookup, creation,
\* Update) leaves every other address in the map with the same Device, all
\* its fields and its service-data map unchanged, removes no address and
\* adds at most its own.
C25_UpsertFrame ==
    [][\A t \in Callbacks :
          (pc[t] \in {"wait", "update"} /\ pc'[t] # pc[t]) =>
              LET a == cb[t].address IN
              /\ Keys(devices') \in {Keys(devices), Keys(devices) \cup {a}}
              /\ \A b \in Keys(devices) \ {a} :
                    /\ devices'[b] = devices[b]
                    /\ Deep(mapHeap', devHeap'[devices'[b]])
                         = Deep(mapHeap, devHeap[devices[b]])]_vars

\* C25 witness: an upsert has created and updated the Device of one address
\* while the other address was in the map; the two Devices differ in name,
\* manufacturer data and service data
C25_Witness ==
    \E a, b \in Addr :
        /\ \E t \in Callbacks : pc[t] = "notify" /\ cb[t].address = a
        /\ Keys(devices) = {a, b}
        /\ devHeap[devices[a]].AdvCount = 1
        /\ devHeap[devices[a]].Name = "x"
        /\ devHeap[devices[b]].AdvCount = 1
        /\ devHeap[devices[b]].Name = ""
        /\ devHeap[devices[b]].ManufacturerID = Absent
        /\ mapHeap[devHeap[devices[a]].ServiceData]
             # mapHeap[devHeap[devices[b]].ServiceData]

\* a step in which Update runs on the Device object id
UpdatedIn(id) ==
    \E t \in Callbacks :
        pc[t] = "update" /\ pc'[t] = "notify" /\ cb[t].device = id

\* C26: the AdvCount of a Device in the map is the number of Updates applied
\* to it since it was created; a step changes the AdvCount of a Device only
\* by running Update on it, which adds exactly 1; a new Device starts at 0;
\* and no step changes the FirstSeen of an existing Device.
C26_CountAndFirstSeen ==
    /\ [](\A a \in Keys(devices) :
            devHeap[devices[a]].AdvCount = applied[a])
    /\ [][\A id \in DOMAIN devHeap' :
            IF id \in DOMAIN devHeap
            THEN /\ devHeap'[id].FirstSeen = devHeap[id].FirstSeen
                 /\ devHeap'[id].AdvCount
                      = devHeap[id].AdvCount + (IF UpdatedIn(id) THEN 1 ELSE 0)
            ELSE /\ devHeap'[id].AdvCount = 0
                 /\ devHeap'[id].FirstSeen = clock]_vars

\* C26 witness: 101 Updates were applied to a Device created before the
\* clock moved on; its log retains 100 events, its count is 101, and it was
\* last seen after it was first seen
C26_Witness ==
    /\ Exists(devices, "A")
    /\ applied["A"] = 101
    /\ DeviceA.AdvCount = 101
    /\ Len(DeviceA.Advertisements) = maxAdvertisements
    /\ DeviceA.FirstSeen < DeviceA.LastSeen

C28_NameSticky ==
    fed # <<>> =>
        LET named == {i \in DOMAIN fed : fed[i].adv.LocalName # ""}
            last == CHOOSE i \in named : \A j \in named : j <= i
        IN DeviceA.Name = IF named = {} THEN "" ELSE fed[last].adv.LocalName

\* C28 witness: a name, then another name, then an event with no name; the
\* second name is kept
C28_Witness ==
    /\ Len(fed) = 3
    /\ fed[1].adv.LocalName = "x"
    /\ fed[2].adv.LocalName = "y"
    /\ fed[3].adv.LocalName = ""
    /\ DeviceA.Name = "y"

\* C29: after each update ServiceUUIDs is the list of the last event applied
\* that had a non-empty one (empty when none had), and the stored
\* service-data map has the keys of all events applied, each with the value
\* of the last event that carried the key.
C29_ServicesMerged ==
    fed # <<>> =>
        LET listed == {i \in DOMAIN fed : fed[i].adv.ServiceUUIDs # <<>>}
            last == CHOOSE i \in listed : \A j \in listed : j <= i
            stored == mapHeap[DeviceA.ServiceData]
            carrying(k) == {i \in DOMAIN fed : k \in DOMAIN fed[i].adv.ServiceData}
        IN /\ DeviceA.ServiceUUIDs
                = IF listed = {} THEN <<>> ELSE fed[last].adv.ServiceUUIDs
           /\ DOMAIN stored
                = UNION {DOMAIN fed[i].adv.ServiceData : i \in DOMAIN fed}
           /\ \A k \in DOMAIN stored :
                 \E i \in carrying(k) :
                    /\ \A j \in carrying(k) : j <= i
                    /\ stored[k] = fed[i].adv.ServiceData[k]

\* C29 witness: one service, then two with a new value for the first, then
\* the first again with no list; the list of the second event is kept, the
\* first key has the third event's value and the second key the second's
C29_Witness ==
    /\ Len(fed) = 3
    /\ fed[1].adv.ServiceUUIDs = <<"u1">>
    /\ fed[2].adv.ServiceUUIDs = <<"u2", "u1">>
    /\ fed[3].adv.ServiceUUIDs = <<>>
    /\ fed[2].adv.ServiceData = ("u1" :> <<8>>) @@ ("u2" :> <<9>>)
    /\ fed[3].adv.ServiceData = ("u1" :> <<7>>)
    /\ DeviceA.ServiceUUIDs = <<"u2", "u1">>
    /\ mapHeap[DeviceA.ServiceData] = ("u1" :> <<7>>) @@ ("u2" :> <<9>>)

\* the values an optional field had in the events applied, by position
FedOptional(f) == [i \in DOMAIN fed |-> fed[i].adv[f]]

\* what a sticky optional field holds after the values given: the last one
\* that is set, and nothing when none is
RECURSIVE LastProvided(_)
LastProvided(vals) ==
    IF vals = <<>> THEN Absent
    ELSE IF vals[Len(vals)] # Absent THEN vals[Len(vals)]
    ELSE LastProvided(SubSeq(vals, 1, Len(vals) - 1))

\* C30: after each update TxPowerLevel, Flags and Appearance each hold the
\* value of the last event applied that provided one, and are absent
\* exactly when no event provided one.
C30_OptionalsSticky ==
    fed # <<>> =>
        \A f \in {"TxPowerLevel", "Flags", "Appearance"} :
            /\ DeviceA[f] = LastProvided(FedOptional(f))
            /\ (DeviceA[f] = Absent)
                 <=> (\A i \in DOMAIN fed : FedOptional(f)[i] = Absent)

\* C30 witness: a tx-power, then a tx-power of zero, then an event with
\* flags of zero and no tx-power; the zero tx-power and the zero flags are
\* held and the appearance is absent
C30_Witness ==
    /\ Len(fed) = 3
    /\ FedOptional("TxPowerLevel") = << <<-4>>, <<0>>, Absent >>
    /\ FedOptional("Flags")[3] = <<0>>
    /\ DeviceA.TxPowerLevel = <<0>>
    /\ DeviceA.Flags = <<0>>
    /\ DeviceA.Appearance = Absent

\* C31: after n updates of the Device its log holds the last min(n, 100)
\* events delivered for it, in arrival order (each event is told from the
\* others by its service data), and never more than 100; with 101 updates
\* the first event is the one that is gone.
C31_LogRetainsLast ==
    Exists(devices, "A") =>
        LET n == DeviceA.AdvCount
            log == DeviceA.Advertisements
            k == IF n < 100 THEN n ELSE 100
        IN /\ Len(log) <= 100
           /\ Len(log) = k
           /\ \A i \in 1..k :
                 log[i].ServiceData = ("u1" :> <<(n - k + i) % 256>>)
           /\ \A i \in {1, k} \cap (1..k) :
                 [log[i] EXCEPT !.Timestamp = 0]
                   = BuildAdvertisement(Result("A", n - k + i), 0)
           /\ n = 101 =>
                 log[1].ServiceData = ("u1" :> <<2>>)

\* C31 witness: 102 updates; the log holds 100 events and begins with the
\* third, which differs from the two dropped
C31_Witness ==
    /\ Exists(devices, "A")
    /\ DeviceA.AdvCount = 102
    /\ Len(DeviceA.Advertisements) = 100
    /\ DeviceA.Advertisements[1].ServiceData = ("u1" :> <<3>>)
    /\ DeviceA.Advertisements[100].ServiceData = ("u1" :> <<102>>)

\* C32: a step that runs Update on a Device leaves its LastSeen equal to the
\* timestamp of the event applied, and not earlier than it was before.
C32_LastSeenAdvances ==
    [][\A t \in Callbacks :
          (pc[t] = "update" /\ pc'[t] = "notify") =>
              /\ devHeap'[cb[t].device].LastSeen = cb[t].adv.Timestamp
              /\ devHeap'[cb[t].device].LastSeen
                   >= devHeap[cb[t].device].LastSeen]_vars

\* C33: a notification attempt leaves at least one signal in the Updates
\* channel, also when its own signal was dropped; and once every mutation is
\* visible and notified, a consumer waiting to receive whose last re-read
\* misses a mutation finds a signal pending, so that its next re-read
\* observes it.
C33_NoLostWakeup ==
    /\ [](( /\ pc["rd"] = "idle"
            /\ smu.w = None
            /\ \A t \in Callbacks \cup {Sweeper} : pc[t] # "notify"
            /\ Range(retDeep["rd"])
                 # {Deep(mapHeap, devHeap[devices[a]]) : a \in Keys(devices)}
          ) => updates > 0)
    /\ [][ /\ (\E t \in Callbacks : pc[t] = "notify" /\ pc'[t] # "notify")
               => updates' >= 1
           /\ (pc[Sweeper] = "notify" /\ pc'[Sweeper] # "notify"
                 /\ sw.removed) => updates' >= 1 ]_vars

\* the consumer has re-read a registry from which the sweep removed the
\* device it had listed, and no signal is left
C33_Witness ==
    /\ pc["rd"] = "idle"
    /\ api["rd"].calls = 2
    /\ Keys(devices) = {}
    /\ retDeep["rd"] = <<>>
    /\ sw.evicted # {}
    /\ updates = 0

\* C34: every copy collected by GetDevices or GetDevice shows a whole number
\* of updates, at least one: its counter is positive, its ring and its log
\* hold min(AdvCount, capacity) entries, RSSICurrent is the newest reading of
\* the ring and LastSeen the timestamp of the newest entry of the log.
C34_SnapshotWholeUpdates ==
    \A t \in Callers : \A i \in DOMAIN api[t].out :
        LET d == api[t].out[i]
            n == d.AdvCount
        IN /\ n >= 1
           /\ Len(d.RSSIHistory) = IF n < maxRSSIHistory THEN n
                                    ELSE maxRSSIHistory
           /\ Len(d.Advertisements) = IF n < maxAdvertisements THEN n
                                       ELSE maxAdvertisements
           /\ d.RSSICurrent = d.RSSIHistory[Len(d.RSSIHistory)]
           /\ d.LastSeen = d.Advertisements[Len(d.Advertisements)].Timestamp

\* a copy taken after the first update of a device while the callback with
\* its second event waits for the registry lock
C34_Witness ==
    \E t \in Callers :
        /\ pc[t] = "range"
        /\ api[t].out # <<>>
        /\ api[t].out[1].AdvCount = 1
        /\ pc["cb1"] = "wait"
        /\ cb["cb1"].address = api[t].out[1].Address

\* C35: for every device in the registry and every copy collected by a
\* reader, FirstSeen is not later than LastSeen.
C35_FirstSeenNotLater ==
    /\ \A a \in Keys(devices) :
          devHeap[devices[a]].FirstSeen <= devHeap[devices[a]].LastSeen
    /\ \A t \in Callers : \A i \in DOMAIN api[t].out :
          api[t].out[i].FirstSeen <= api[t].out[i].LastSeen

\* C36: while a callback is between the lookup and the end of Update, the
\* Device it updates is the one the registry holds under the address of the
\* event; no sweep and no Clear removes it in between.
C36_UpdatesStoredDevice ==
    \A t \in Callbacks :
        pc[t] = "update" =>
            /\ Exists(devices, cb[t].address)
            /\ devices[cb[t].address] = cb[t].device

\* a callback about to update while the sweeper and Clear both wait for the
\* registry lock
C36_Witness ==
    /\ pc["cb1"] = "update"
    /\ smu.p = {"ui", Sweeper}
    /\ pc["ui"] = "clear_wait"

\* C37: a device to which one event has been applied since its address was
\* last absent from the registry, be it after a sweep or after Clear, is
\* made of that event alone: its counter is 1, its ring and its log hold the
\* one sample, its interval is unknown, and its name, manufacturer, service
\* fields and type codes are those of the event.
C37_FreshAfterRemoval ==
    \A a \in Keys(devices) :
        LET d == devHeap[devices[a]]
        IN (applied[a] = 1 /\ dmu[devices[a]].w = None) =>
              \E n \in 2..(nEvents + 1) :
                 LET adv == BuildAdvertisement(Result(a, n), d.LastSeen)
                 IN /\ d.AdvCount = 1
                    /\ d.RSSIHistory = <<adv.RSSI>>
                    /\ d.Advertisements = <<adv>>
                    /\ d.AdvInterval = 0
                    /\ d.Name = adv.LocalName
                    /\ d.ManufacturerData = adv.ManufacturerData
                    /\ d.ManufacturerID = IF adv.ManufacturerData = <<>>
                                          THEN Absent ELSE <<76>>
                    /\ d.ServiceUUIDs = adv.ServiceUUIDs
                    /\ mapHeap[d.ServiceData] = adv.ServiceData
                    /\ Range(d.ADTypes) = Range(adv.ADTypes)
                    /\ Len(d.ADTypes) = Len(adv.ADTypes)

\* address A, first seen with a name and manufacturer data, was removed by
\* the sweep and has been seen again by an anonymous event
C37_Witness ==
    /\ "A" \in sw.evicted
    /\ Exists(devices, "A")
    /\ applied["A"] = 1
    /\ pc["cb1"] = "idle"
    /\ DeviceA.Name = ""
    /\ DeviceA.ManufacturerID = Absent
    /\ DeviceA.ADTypes = <<3, 22>>

\* C38: a call of Stop on a scanner that is not scanning, be it before Start
\* or after an earlier Stop, changes nothing; and no call of Stop closes a
\* stop channel that is already closed.
C38_StopRepeatable ==
    [][(api'["ui"].calls = api["ui"].calls + 1 /\ api'["ui"].op = "Stop") =>
          /\ ~scanning =>
                UNCHANGED <<registry, smu, updates, lifecycle, clock, pc, cb,
                            sw, history>>
          /\ stopClosed =>
                /\ pc'["ui"] = "idle"
                /\ UNCHANGED lifecycle]_vars

\* a Stop called after the Stop that stopped the scanner has returned
C38_Witness ==
    /\ stopReturned
    /\ stopClosed
    /\ pc["ui"] = "idle"
    /\ api["ui"].op = "Stop"
    /\ api["ui"].calls = 2

\* C39: the AdvInterval of a device is 0 (unknown) or a duration of at least
\* 10 ms and below 10 s, whatever the timestamps of the events were.
C39_IntervalInRange ==
    Exists(devices, "A") =>
        \/ DeviceA.AdvInterval = 0
        \/ /\ DeviceA.AdvInterval >= MinInterval
           /\ DeviceA.AdvInterval < MaxInterval

\* an interval at the top of the range, the mean of the two middle ones of
\* four plausible deltas, in a log that also holds an implausible delta
C39_Witness ==
    /\ Exists(devices, "A")
    /\ Len(DeviceA.Advertisements) = 6
    /\ Len(ValidIntervals(DeviceA.Advertisements)) = 4
    /\ DeviceA.AdvInterval = MaxInterval - 2 * Microsecond

\* C40: for every raw payload ParseADTypes returns; every index of RawData
\* it reads lies inside the buffer; every iteration that goes on to another
\* one has moved the offset forward; and with an empty payload it returns
\* without a read and leaves ADTypes as it was.
C40_ParseBounded ==
    /\ [](\A i \in DOMAIN packet.reads :
              packet.reads[i] >= 0 /\ packet.reads[i] < Len(packet.a.RawData))
    /\ []((packet.at = "done" /\ packet.a.RawData = <<>>) =>
              (packet.a.ADTypes = <<255>> /\ packet.reads = <<>>))
    /\ [][(packet.at = "loop" /\ packet'.at = "loop") =>
              packet'.offset > packet.offset]_vars
    /\ <>(packet.at = "done")

\* a payload whose last byte is a length: the loop has read the record
\* before it and that length, and stopped before the missing type byte
C40_Witness ==
    /\ packet.at = "done"
    /\ packet.a.RawData = <<1, 9, 3>>
    /\ packet.reads = <<0, 1, 2>>
    /\ packet.a.ADTypes = <<9>>
====
